---- MODULE Spec2Model ----
(***************************************************************************)
(* Wingman browser client (static/app.js): dual audio capture, one         *)
(* websocket per listening session, post-call summary modal, transcript    *)
(* rendering and discussion tracker.                                       *)
(*                                                                         *)
(* The JavaScript globals and the DOM properties the handlers read or      *)
(* write are the variables.  Every handler is an operator from a state     *)
(* record to a state record, so that a handler calling another handler is  *)
(* function composition; an action applies one handler to the current      *)
(* state and commits the result.  One action is one event-loop task        *)
(* together with the microtasks (promise continuations) it triggers.       *)
(***************************************************************************)
EXTENDS Integers, Sequences, FiniteSets, TLC

(* ----------------------------- bounds ---------------------------------- *)
MaxSockets == 2       \* websockets created (listening sessions attempted)
MaxSent    == 3       \* messages recorded per websocket
MaxFinals  == 3       \* final transcript events between two clearAll calls
MaxFetches == 1       \* auto-suggest fetches in flight
MaxCards   == 2       \* suggestion cards created
MaxChunks  == 2       \* suggestion chunks appended to the cards
MaxInput   == 5       \* samples fed to the audio worklet
bufferSize == 2       \* samples that trigger a post (this._bufferSize, 1200 in the source)
MaxWords   == 3       \* word elements created in the cloud
MaxQueries == 4       \* search timers armed and searches sent on the pre-call page
MaxClock   == 13      \* seconds of server clock
MaxChars   == 200     \* characters of final transcript on the server

(* ------------------------ program constants ---------------------------- *)
SOURCE_MIC     == 1
SOURCE_SPEAKER == 2
PCM_NEG == 32769      \* 0x8001
PCM_POS == 32767      \* 0x7fff
SUGGESTION_COOLDOWN_SECONDS  == 6
MIN_NEW_CHARS_FOR_SUGGESTION == 60

(* ------------------------- input universes ----------------------------- *)
Chunks      == { <<7, 9>> }                 \* PCM bytes posted by a worklet
SampleRates == { 24000 }                    \* audioContext.sampleRate
Speakers    == { "Advisor", "Client" }      \* transcript speaker labels
Texts       == { "a", "b" }                 \* transcript texts
PointLists  == { <<"p2", "p1">> }           \* discussion point lists
Statuses    == { "pending", "in_progress", "discussed" }
ProfileKeys ==
  { "family", "life_events", "interests", "career", "key_concerns",
    "referral_opportunities", "ms_product_signals", "document_triggers" }
(* intelligence_update messages: lists holds the categories the message *)
(* carries a list for; "" stands for an absent or empty string field. *)
IntelUpdates ==
  { [sentiment |-> "", risk_profile |-> "", client_tier |-> "",
     lists |-> [k \in {"family"} |-> <<"x", "x">>]],
    [sentiment |-> "positive", risk_profile |-> "moderate",
     client_tier |-> "Gold",
     lists |-> [k \in ProfileKeys |->
                  IF k = "family" THEN <<"y">>
                  ELSE IF k = "key_concerns" THEN <<"x">> ELSE <<>>]],
    [sentiment |-> "", risk_profile |-> "", client_tier |-> "Unknown",
     lists |-> [k \in {"key_concerns", "document_triggers"} |->
                  IF k = "key_concerns" THEN <<>> ELSE <<"y">>]],
    [sentiment |-> "", risk_profile |-> "", client_tier |-> "",
     lists |-> [k \in {"referral_opportunities"} |-> <<"x">>]],
    [sentiment |-> "", risk_profile |-> "", client_tier |-> "",
     lists |-> [k \in {} |-> <<>>]] }
SuggestionIds == { 1, 2 }                    \* data.id of suggestion events
CommitSizes == { 20, 60, 80 }                \* characters of one final commit
TodoLists   ==                              \* todo_update items
  { <<>>, <<"t1">>, <<"t2", "t1">>, <<"t1", "t1">> }
TrackerUpdates ==                           \* points of a tracker update
  {<<>>} \cup { <<[text |-> "p1", status |-> a]>> : a \in Statuses }
         \cup { <<[text |-> "p2", status |-> a], [text |-> "p1", status |-> b]>> :
                  a \in Statuses, b \in Statuses }
Unit        == 2^15                         \* a sample x stands for x / Unit
Samples     == { 0 - 2 * Unit, 0 - Unit, 1 - Unit, 0, Unit }
Blocks      ==                              \* first-channel data of one call
  UNION { [1..n -> Samples] : n \in 0..2 }
Inputs      ==                              \* inputs[0]: no channel, one, two
  {<<>>} \cup { <<d>> : d \in Blocks } \cup { <<<<x>>, <<0>>>> : x \in Samples }
Topics      ==                              \* topics of word_cloud_update
  { [text |-> "a", weight |-> 8], [text |-> "A", weight |-> 3],
    [text |-> "b", weight |-> 3], [text |-> "b", weight |-> 8] }
TopicLists  ==
  {<<>>} \cup { <<t>> : t \in Topics } \cup { <<t, u>> : t \in Topics, u \in Topics }
SearchValues == { "", " ", "a", "b" }       \* contents of the search box
PointValues == { "", " ", "p1", " p2 " }    \* contents of a discussion input
Clients     == { [id |-> "c1", name |-> "Ann"] }
NoClient    == [id |-> "", name |-> ""]     \* selectedClient = null
NoShown     == [id |-> 0, q |-> ""]         \* searchResults.innerHTML = ""
NoItem      == [present |-> FALSE, value |-> <<>>]  \* getItem returns null
(* Module-level initialisers of the pre-call page; page is the document *)
(* the tab shows. *)
PreCallLoad ==
  [ page |-> "call", value |-> "", timers |-> {}, searchTimeout |-> 0,
    fetches |-> {}, qseq |-> 0, shown |-> NoShown, visible |-> FALSE,
    clientFetches |-> {}, selectedClient |-> NoClient,
    inputs |-> <<"", "">>,
    storage |-> [wingman_client_id |-> "", wingman_client_name |-> "",
                 wingman_discussion_points |-> NoItem],
    search |-> "" ]
Sockets     == 1..MaxSockets
TimerIds    == 1..MaxSockets                \* one summary timer per socket at most
Terminal    == { "timeout", "conn_lost", "error", "summary" }

(* ---------------------------- variables -------------------------------- *)
VARIABLES
  pc,                 \* position of startListening: idle | mic | display | worklets | connecting
  isSimulation,       \* startAudioCapture: const isSimulation
  sources,            \* startAudioCapture: const sources
  connArgs,           \* connectWebSocket(sampleRate, sources, mode) closure
  micStream, speakerStream, micWorklet, speakerWorklet, audioContext,
  hasSpeakerAudio,
  websocket,          \* 0 = null, else the socket the global refers to
  nsock,              \* sockets created so far
  readyState,         \* per socket: NONE | CONNECTING | OPEN | CLOSING | CLOSED
  sent,               \* per open socket: messages transmitted, in order
  summaryReplied,     \* sockets on which the server has sent post_call_summary
  isListening, waitingForSummary,
  pingInterval, timerInterval,
  summaryTimeout,     \* 0 = null, else id of the timer the global refers to
  timers,             \* ids of pending 30 s summary timers
  ntimers,            \* summary timers created so far
  ctxTimers,          \* pending setTimeout(sendClientContext, 100) callbacks
  startBtnHidden, startBtnDisabled, stopBtnHidden, meetingTimerHidden,
  modalHidden, modalFooterHidden,
  modalBody,          \* initial | loading | timeout | conn_lost | error | summary
  statusDot,
  coachingToggle,
  clientContextId,    \* "" = null
  discussionPoints, discussionTrackerMode, trackerSetupMode,
  trackerModeSelectorHidden, trackerManualEntryHidden,
  trackerAutoWaitingHidden, trackerItemsHidden,
  trackerItems,       \* rendered tracker rows: <<[text, status]>>
  transcriptLines,    \* children of transcriptContainer:
                      \*   <<[id, kind, speakerClass, label, text]>>
  interimElements,    \* speaker -> id of its interim element, 0 = absent
  lineSeq,            \* elements created since the container was last reset
  autoSuggestRequested, \* showAutoSuggest / clearAll
  autoFetches,        \* pending fetches of /api/suggest-discussion-points
  accumulatedProfile, \* category -> set of items
  latestSentiment,
  latestRiskProfile,
  latestClientTier,
  intelligenceBarHidden,
  knownTodoItems,
  accumulatedTodoItems, \* texts of the accumulated action items
  receivedProfile,    \* history: items received per category since the last clearAll
  now,                \* server: the injected clock, in seconds
  totalChars,         \* server: characters of final transcript committed
  gate,               \* server: the suggestion gate
  fireLog,            \* history: clock and totalChars at each fire of the gate
  cards,              \* suggestion cards created, by card number: [sid, text, spinner, rendered]
  suggestionsContainer, \* card numbers of the children of suggestionsContainer
  activeSuggestions,  \* suggestion id -> card number, 0 = absent
  streaming,          \* server: id of the suggestion task streaming per session, 0 = none
  worklet,            \* AudioCaptureProcessor: _buffer, chunks posted, history of samples fed
  wordcloud,          \* word elements of the cloud, their removal timers, ids used, topics of the last update
  precall,            \* the pre-call page: search box, timers, fetches, selected client, inputs, sessionStorage
  finalsLog           \* history: final transcript events received since
                      \*   the last clearAll

vars == << pc, isSimulation, sources, connArgs, micStream, speakerStream,
           micWorklet, speakerWorklet, audioContext, hasSpeakerAudio,
           websocket, nsock, readyState, sent, summaryReplied, isListening,
           waitingForSummary, pingInterval, timerInterval, summaryTimeout,
           timers, ntimers, ctxTimers, startBtnHidden, startBtnDisabled,
           stopBtnHidden, meetingTimerHidden, modalHidden, modalFooterHidden,
           modalBody, statusDot, coachingToggle, clientContextId,
           discussionPoints, discussionTrackerMode, trackerSetupMode,
           trackerModeSelectorHidden, trackerManualEntryHidden,
           trackerAutoWaitingHidden, trackerItemsHidden, trackerItems,
           transcriptLines, interimElements, autoSuggestRequested,
           autoFetches,
           accumulatedProfile,
           latestSentiment,
           latestRiskProfile,
           latestClientTier,
           intelligenceBarHidden,
           knownTodoItems,
           accumulatedTodoItems,
           receivedProfile,
           now,
           totalChars,
           gate,
           fireLog,
           cards,
           suggestionsContainer,
           activeSuggestions,
           streaming,
           worklet,
           wordcloud,
           precall,
           lineSeq, finalsLog >>

(* The current state as one record, and its commit as the next state. *)
Cur ==
  [ pc |-> pc, isSimulation |-> isSimulation, sources |-> sources,
    connArgs |-> connArgs, micStream |-> micStream,
    speakerStream |-> speakerStream, micWorklet |-> micWorklet,
    speakerWorklet |-> speakerWorklet, audioContext |-> audioContext,
    hasSpeakerAudio |-> hasSpeakerAudio, websocket |-> websocket,
    nsock |-> nsock, readyState |-> readyState, sent |-> sent,
    summaryReplied |-> summaryReplied, isListening |-> isListening,
    waitingForSummary |-> waitingForSummary, pingInterval |-> pingInterval,
    timerInterval |-> timerInterval, summaryTimeout |-> summaryTimeout,
    timers |-> timers, ntimers |-> ntimers, ctxTimers |-> ctxTimers,
    startBtnHidden |-> startBtnHidden, startBtnDisabled |-> startBtnDisabled,
    stopBtnHidden |-> stopBtnHidden, meetingTimerHidden |-> meetingTimerHidden,
    modalHidden |-> modalHidden, modalFooterHidden |-> modalFooterHidden,
    modalBody |-> modalBody, statusDot |-> statusDot,
    coachingToggle |-> coachingToggle, clientContextId |-> clientContextId,
    discussionPoints |-> discussionPoints,
    discussionTrackerMode |-> discussionTrackerMode,
    trackerSetupMode |-> trackerSetupMode,
    trackerModeSelectorHidden |-> trackerModeSelectorHidden,
    trackerManualEntryHidden |-> trackerManualEntryHidden,
    trackerAutoWaitingHidden |-> trackerAutoWaitingHidden,
    trackerItemsHidden |-> trackerItemsHidden, trackerItems |-> trackerItems,
    transcriptLines |-> transcriptLines, interimElements |-> interimElements,
    autoSuggestRequested |-> autoSuggestRequested,
    autoFetches |-> autoFetches,
    accumulatedProfile |-> accumulatedProfile,
    latestSentiment |-> latestSentiment,
    latestRiskProfile |-> latestRiskProfile,
    latestClientTier |-> latestClientTier,
    intelligenceBarHidden |-> intelligenceBarHidden,
    knownTodoItems |-> knownTodoItems,
    accumulatedTodoItems |-> accumulatedTodoItems,
    receivedProfile |-> receivedProfile,
    now |-> now,
    totalChars |-> totalChars,
    gate |-> gate,
    fireLog |-> fireLog,
    cards |-> cards,
    suggestionsContainer |-> suggestionsContainer,
    activeSuggestions |-> activeSuggestions,
    streaming |-> streaming,
    worklet |-> worklet,
    wordcloud |-> wordcloud,
    precall |-> precall,
    lineSeq |-> lineSeq, finalsLog |-> finalsLog ]

Become(S) ==
  /\ pc' = S.pc /\ isSimulation' = S.isSimulation /\ sources' = S.sources
  /\ connArgs' = S.connArgs /\ micStream' = S.micStream
  /\ speakerStream' = S.speakerStream /\ micWorklet' = S.micWorklet
  /\ speakerWorklet' = S.speakerWorklet /\ audioContext' = S.audioContext
  /\ hasSpeakerAudio' = S.hasSpeakerAudio /\ websocket' = S.websocket
  /\ nsock' = S.nsock /\ readyState' = S.readyState /\ sent' = S.sent
  /\ summaryReplied' = S.summaryReplied /\ isListening' = S.isListening
  /\ waitingForSummary' = S.waitingForSummary
  /\ pingInterval' = S.pingInterval /\ timerInterval' = S.timerInterval
  /\ summaryTimeout' = S.summaryTimeout /\ timers' = S.timers
  /\ ntimers' = S.ntimers /\ ctxTimers' = S.ctxTimers
  /\ startBtnHidden' = S.startBtnHidden
  /\ startBtnDisabled' = S.startBtnDisabled
  /\ stopBtnHidden' = S.stopBtnHidden
  /\ meetingTimerHidden' = S.meetingTimerHidden
  /\ modalHidden' = S.modalHidden /\ modalFooterHidden' = S.modalFooterHidden
  /\ modalBody' = S.modalBody /\ statusDot' = S.statusDot
  /\ coachingToggle' = S.coachingToggle
  /\ clientContextId' = S.clientContextId
  /\ discussionPoints' = S.discussionPoints
  /\ discussionTrackerMode' = S.discussionTrackerMode
  /\ trackerSetupMode' = S.trackerSetupMode
  /\ trackerModeSelectorHidden' = S.trackerModeSelectorHidden
  /\ trackerManualEntryHidden' = S.trackerManualEntryHidden
  /\ trackerAutoWaitingHidden' = S.trackerAutoWaitingHidden
  /\ trackerItemsHidden' = S.trackerItemsHidden
  /\ trackerItems' = S.trackerItems
  /\ transcriptLines' = S.transcriptLines
  /\ interimElements' = S.interimElements
  /\ autoSuggestRequested' = S.autoSuggestRequested
  /\ autoFetches' = S.autoFetches
  /\ accumulatedProfile' = S.accumulatedProfile
  /\ latestSentiment' = S.latestSentiment
  /\ latestRiskProfile' = S.latestRiskProfile
  /\ latestClientTier' = S.latestClientTier
  /\ intelligenceBarHidden' = S.intelligenceBarHidden
  /\ knownTodoItems' = S.knownTodoItems
  /\ accumulatedTodoItems' = S.accumulatedTodoItems
  /\ receivedProfile' = S.receivedProfile
  /\ now' = S.now
  /\ totalChars' = S.totalChars
  /\ gate' = S.gate
  /\ fireLog' = S.fireLog
  /\ cards' = S.cards
  /\ suggestionsContainer' = S.suggestionsContainer
  /\ activeSuggestions' = S.activeSuggestions
  /\ streaming' = S.streaming
  /\ worklet' = S.worklet
  /\ wordcloud' = S.wordcloud
  /\ precall' = S.precall
  /\ lineSeq' = S.lineSeq /\ finalsLog' = S.finalsLog

(* The current state is S. *)
IsState(S) ==
  /\ pc = S.pc /\ isSimulation = S.isSimulation /\ sources = S.sources
  /\ connArgs = S.connArgs /\ micStream = S.micStream
  /\ speakerStream = S.speakerStream /\ micWorklet = S.micWorklet
  /\ speakerWorklet = S.speakerWorklet /\ audioContext = S.audioContext
  /\ hasSpeakerAudio = S.hasSpeakerAudio /\ websocket = S.websocket
  /\ nsock = S.nsock /\ readyState = S.readyState /\ sent = S.sent
  /\ summaryReplied = S.summaryReplied /\ isListening = S.isListening
  /\ waitingForSummary = S.waitingForSummary
  /\ pingInterval = S.pingInterval /\ timerInterval = S.timerInterval
  /\ summaryTimeout = S.summaryTimeout /\ timers = S.timers
  /\ ntimers = S.ntimers /\ ctxTimers = S.ctxTimers
  /\ startBtnHidden = S.startBtnHidden
  /\ startBtnDisabled = S.startBtnDisabled
  /\ stopBtnHidden = S.stopBtnHidden
  /\ meetingTimerHidden = S.meetingTimerHidden
  /\ modalHidden = S.modalHidden /\ modalFooterHidden = S.modalFooterHidden
  /\ modalBody = S.modalBody /\ statusDot = S.statusDot
  /\ coachingToggle = S.coachingToggle
  /\ clientContextId = S.clientContextId
  /\ discussionPoints = S.discussionPoints
  /\ discussionTrackerMode = S.discussionTrackerMode
  /\ trackerSetupMode = S.trackerSetupMode
  /\ trackerModeSelectorHidden = S.trackerModeSelectorHidden
  /\ trackerManualEntryHidden = S.trackerManualEntryHidden
  /\ trackerAutoWaitingHidden = S.trackerAutoWaitingHidden
  /\ trackerItemsHidden = S.trackerItemsHidden
  /\ trackerItems = S.trackerItems /\ transcriptLines = S.transcriptLines
  /\ interimElements = S.interimElements /\ lineSeq = S.lineSeq
  /\ autoSuggestRequested = S.autoSuggestRequested
  /\ autoFetches = S.autoFetches
  /\ accumulatedProfile = S.accumulatedProfile
  /\ latestSentiment = S.latestSentiment
  /\ latestRiskProfile = S.latestRiskProfile
  /\ latestClientTier = S.latestClientTier
  /\ intelligenceBarHidden = S.intelligenceBarHidden
  /\ knownTodoItems = S.knownTodoItems
  /\ accumulatedTodoItems = S.accumulatedTodoItems
  /\ receivedProfile = S.receivedProfile
  /\ now = S.now
  /\ totalChars = S.totalChars
  /\ gate = S.gate
  /\ fireLog = S.fireLog
  /\ cards = S.cards
  /\ suggestionsContainer = S.suggestionsContainer
  /\ activeSuggestions = S.activeSuggestions
  /\ streaming = S.streaming
  /\ worklet = S.worklet
  /\ wordcloud = S.wordcloud
  /\ precall = S.precall
  /\ finalsLog = S.finalsLog

RECURSIVE ChunkCount(_)
ChunkCount(cs) ==
  IF cs = <<>> THEN 0 ELSE Len(Head(cs).text) + ChunkCount(Tail(cs))

(* The model records at most MaxSent messages per socket and at most *)
(* MaxFinals final transcript events; a step that would exceed a bound *)
(* is not taken. *)
WithinBounds(S) ==
  /\ \A s \in Sockets : Len(S.sent[s]) <= MaxSent
  /\ Len(S.finalsLog) <= MaxFinals
  /\ S.now <= MaxClock /\ S.totalChars <= MaxChars
  /\ Len(S.cards) <= MaxCards
  /\ ChunkCount(S.cards) <= MaxChunks
  /\ Len(S.worklet.input) <= MaxInput
  /\ S.wordcloud.seq <= MaxWords
  /\ S.precall.qseq <= MaxQueries

(* Nothing is transmitted on a socket that has left OPEN and no message *)
(* of it is delivered: its record is dropped, and the server's session *)
(* ends with its tasks. *)
Retire(S) ==
  [S EXCEPT !.sent = [s \in Sockets |->
                        IF S.readyState[s] = "OPEN" THEN S.sent[s] ELSE <<>>],
            !.summaryReplied = {s \in @ : S.readyState[s] = "OPEN"},
            !.streaming = [s \in Sockets |->
                             IF S.readyState[s] = "OPEN"
                               THEN S.streaming[s] ELSE 0]]

Commit(S) ==
  /\ WithinBounds(S)
  /\ Become(Retire(S))

(* --------------------------- wire messages ----------------------------- *)
BaseMsg ==
  [ type |-> "", sampleRate |-> 0, sources |-> <<>>, mode |-> "",
    bytes |-> <<>>, enabled |-> FALSE, client_id |-> "",
    discussion_points |-> <<>> ]

ConfigMsg(sr, srcs, md) ==
  [BaseMsg EXCEPT !.type = "config", !.sampleRate = sr, !.sources = srcs,
                  !.mode = md]
PingMsg == [BaseMsg EXCEPT !.type = "ping"]
(* Mutant of CoachingMsg: enabled is always true. *)
CoachingMsgAlwaysOn(b) ==
  [BaseMsg EXCEPT !.type = "coaching_mode", !.enabled = TRUE]

CoachingMsg(b) == [BaseMsg EXCEPT !.type = "coaching_mode", !.enabled = b]
GenerateSummaryMsg == [BaseMsg EXCEPT !.type = "generate_summary"]
ClientContextMsg(id, pts) ==
  [BaseMsg EXCEPT !.type = "client_context", !.client_id = id,
                  !.discussion_points = pts]
SetPointsMsg(pts) ==
  [BaseMsg EXCEPT !.type = "set_discussion_points", !.discussion_points = pts]
AudioMsg(packet) == [BaseMsg EXCEPT !.type = "audio", !.bytes = packet]

(* websocket.readyState === WebSocket.OPEN on the global, null-safe. *)
WsOpen(S) == S.websocket # 0 /\ S.readyState[S.websocket] = "OPEN"

(* websocket.send(msg) on the global: transmitted when the socket is OPEN, *)
(* silently discarded when it is CLOSING or CLOSED. *)
WsSend(S, msg) ==
  IF WsOpen(S)
    THEN [S EXCEPT !.sent[S.websocket] = Append(@, msg)]
    ELSE S

(* websocket.close() on the global: CONNECTING and OPEN become CLOSING, *)
(* the close event is delivered later. *)
WsClose(S) ==
  IF S.websocket # 0 /\ S.readyState[S.websocket] \in {"CONNECTING", "OPEN"}
    THEN [S EXCEPT !.readyState[S.websocket] = "CLOSING"]
    ELSE S

(* setStatus(state, message): the class of the status dot; the message *)
(* text is presentation only. *)
setStatus(S, state) == [S EXCEPT !.statusDot = state]


(* ------------------------- audio capture ------------------------------- *)
(* Mutant of audioPacket: packet.set(pcm, 0) overwrites the tag byte. *)
audioPacketOverwritesTag(sourceId, pcm) ==
  [i \in 1..(1 + Len(pcm)) |-> IF i <= Len(pcm) THEN pcm[i] ELSE 0]

(* sendAudioPacket: packet = new Uint8Array(1 + pcm.length); packet[0] = *)
(* sourceId; packet.set(pcm, 1). *)
audioPacket(sourceId, pcm) ==
  [i \in 1..(1 + Len(pcm)) |-> IF i = 1 THEN sourceId ELSE pcm[i - 1]]

sendAudioPacket(S, sourceId, pcm) ==
  IF ~WsOpen(S) THEN S
  ELSE WsSend(S, AudioMsg(audioPacket(sourceId, pcm)))

(* Mutant of stopAudioCapture: the worklets stay connected. *)
stopAudioCaptureKeepsWorklets(S) ==
  [S EXCEPT !.audioContext = FALSE, !.micStream = FALSE,
            !.speakerStream = FALSE, !.hasSpeakerAudio = FALSE]

stopAudioCapture(S) ==
  [S EXCEPT !.micWorklet = FALSE, !.speakerWorklet = FALSE,
            !.audioContext = FALSE, !.micStream = FALSE,
            !.speakerStream = FALSE, !.hasSpeakerAudio = FALSE]

(* ------------------------- start / stop -------------------------------- *)
startMeetingTimer(S) ==
  [S EXCEPT !.meetingTimerHidden = FALSE, !.timerInterval = TRUE]

finishStop(S) ==
  LET A == stopAudioCapture(S)
      B == IF A.websocket # 0 THEN [WsClose(A) EXCEPT !.websocket = 0] ELSE A
  IN  setStatus([B EXCEPT !.waitingForSummary = FALSE,
                          !.stopBtnHidden = TRUE,
                          !.startBtnHidden = FALSE,
                          !.startBtnDisabled = FALSE,
                          !.meetingTimerHidden = TRUE], "idle")

showPostCallModal(S) ==
  [S EXCEPT !.modalHidden = FALSE, !.modalBody = "loading",
            !.modalFooterHidden = TRUE]

closePostCallModal(S) == finishStop([S EXCEPT !.modalHidden = TRUE])

(* Mutant of summaryTimeoutCallback: the safety timeout does nothing. *)
summaryTimeoutCallbackSilent(S) == S

(* The callback of the 30 s safety timeout armed by stopListening. *)
summaryTimeoutCallback(S) ==
  IF S.waitingForSummary
    THEN [S EXCEPT !.waitingForSummary = FALSE, !.modalBody = "timeout",
                   !.modalFooterHidden = FALSE]
    ELSE S

(* Mutant of stopListening: without the isListening guard. *)
stopListeningUnguarded(S) ==
  LET A == [S EXCEPT !.isListening = FALSE, !.pingInterval = FALSE,
                     !.timerInterval = FALSE]
  IN  IF WsOpen(A)
        THEN LET B == WsSend([A EXCEPT !.waitingForSummary = TRUE],
                             GenerateSummaryMsg)
                 C == setStatus(showPostCallModal(B), "connected")
                 t == C.ntimers + 1
             IN  [C EXCEPT !.ntimers = t, !.timers = @ \cup {t},
                           !.summaryTimeout = t]
        ELSE finishStop(stopAudioCapture(A))

(* Mutant of stopListening: isListening is left set. *)
stopListeningStaysActive(S) ==
  IF ~S.isListening THEN S
  ELSE
    LET A == [S EXCEPT !.pingInterval = FALSE, !.timerInterval = FALSE]
    IN  IF WsOpen(A)
          THEN LET B == WsSend([A EXCEPT !.waitingForSummary = TRUE],
                               GenerateSummaryMsg)
                   C == setStatus(showPostCallModal(B), "connected")
                   t == C.ntimers + 1
               IN  [C EXCEPT !.ntimers = t, !.timers = @ \cup {t},
                             !.summaryTimeout = t]
          ELSE finishStop(stopAudioCapture(A))

stopListening(S) ==
  IF ~S.isListening THEN S
  ELSE
    LET A == [S EXCEPT !.isListening = FALSE, !.pingInterval = FALSE,
                       !.timerInterval = FALSE]
    IN  IF WsOpen(A)
          THEN LET B == WsSend([A EXCEPT !.waitingForSummary = TRUE],
                               GenerateSummaryMsg)
                   C == setStatus(showPostCallModal(B), "connected")
                   t == C.ntimers + 1
               IN  [C EXCEPT !.ntimers = t, !.timers = @ \cup {t},
                             !.summaryTimeout = t]
          ELSE finishStop(stopAudioCapture(A))

(* data.error set: kind = "error"; otherwise the tabbed summary is rendered *)
(* (the FA Notes tab is always pushed, so the tab list is never empty). *)
handlePostCallSummary(S, kind) ==
  LET A == [S EXCEPT !.waitingForSummary = FALSE,
                     !.timers = IF S.summaryTimeout # 0
                                  THEN @ \ {S.summaryTimeout} ELSE @,
                     !.summaryTimeout = 0]
  IN  [A EXCEPT !.modalBody = kind, !.modalFooterHidden = FALSE]

(* Mutant of onclose: a close while the summary is awaited is ignored. *)
oncloseListeningOnly(S) ==
  IF S.isListening /\ ~S.waitingForSummary
    THEN finishStop(setStatus(S, "error"))
    ELSE S

(* websocket.onclose *)
onclose(S) ==
  IF S.waitingForSummary
    THEN stopAudioCapture([S EXCEPT !.waitingForSummary = FALSE,
                                    !.modalBody = "conn_lost",
                                    !.modalFooterHidden = FALSE])
  ELSE IF S.isListening
    THEN finishStop(setStatus(S, "error"))
  ELSE S

(* The catch block of startListening. *)
startFailed(S, message) ==
  [stopAudioCapture(setStatus(S, message))
     EXCEPT !.startBtnDisabled = FALSE, !.pc = "idle"]

(* Mutant of afterStreams: simulation mode is not required to have system *)
(* audio. *)
afterStreamsNoSimulationCheck(S) ==
  [S EXCEPT !.audioContext = TRUE, !.pc = "worklets"]

(* startAudioCapture after the streams are acquired: the simulation check *)
(* and the creation of the AudioContext, up to the await of addModule. *)
afterStreams(S) ==
  IF S.isSimulation /\ ~S.hasSpeakerAudio
    THEN startFailed(S, "error")
    ELSE [S EXCEPT !.audioContext = TRUE, !.pc = "worklets"]

(* Mutant of onopenMessages: the client context precedes the config. *)
onopenMessagesContextFirst(S) ==
  << ClientContextMsg(S.clientContextId, S.discussionPoints),
     ConfigMsg(S.connArgs.sampleRate, S.connArgs.sources, S.connArgs.mode) >>

(* The first message sent by websocket.onopen. *)
onopenMessages(S) ==
  << ConfigMsg(S.connArgs.sampleRate, S.connArgs.sources, S.connArgs.mode) >>

RECURSIVE SendAll(_, _)
SendAll(S, msgs) ==
  IF msgs = <<>> THEN S ELSE SendAll(WsSend(S, Head(msgs)), Tail(msgs))

(* websocket.onopen followed by the rest of startListening, which resumes *)
(* in the same task once connectWebSocket's promise resolves. *)
onopen(S) ==
  IF S.websocket = 0 \/ S.readyState[S.websocket] = "CONNECTING"
    THEN S    \* websocket.send throws: the promise is never resolved
    ELSE
      LET A == [SendAll(S, onopenMessages(S)) EXCEPT !.ctxTimers = @ + 1]
          B == startMeetingTimer(
                 [A EXCEPT !.isListening = TRUE, !.startBtnHidden = TRUE,
                           !.stopBtnHidden = FALSE, !.pingInterval = TRUE])
          C == IF B.coachingToggle THEN WsSend(B, CoachingMsg(TRUE)) ELSE B
      IN  [setStatus(C, "connected") EXCEPT !.pc = "idle"]

(* ----------------------- discussion tracker ---------------------------- *)
renderDiscussionTracker(S, points) ==
  IF points = <<>> THEN S ELSE [S EXCEPT !.trackerItems = points]

(* Mutant of sendClientContext: points without a client id are not sent. *)
sendClientContextIdOnly(S) ==
  IF WsOpen(S) /\ S.clientContextId # ""
    THEN WsSend(S, ClientContextMsg(S.clientContextId, S.discussionPoints))
    ELSE S

sendClientContext(S) ==
  IF ~WsOpen(S) THEN S
  ELSE IF S.clientContextId # ""
    THEN WsSend(S, ClientContextMsg(S.clientContextId, S.discussionPoints))
  ELSE IF Len(S.discussionPoints) > 0
    THEN WsSend(S, SetPointsMsg(S.discussionPoints))
  ELSE S

activateTrackerWithPoints(S, points) ==
  LET A == [S EXCEPT !.discussionPoints = points,
                     !.discussionTrackerMode = TRUE,
                     !.trackerSetupMode = "active",
                     !.trackerModeSelectorHidden = TRUE,
                     !.trackerManualEntryHidden = TRUE,
                     !.trackerAutoWaitingHidden = TRUE,
                     !.trackerItemsHidden = FALSE]
      B == renderDiscussionTracker(A,
             [i \in 1..Len(points) |-> [text |-> points[i], status |-> "pending"]])
  IN  IF WsOpen(B)
        THEN IF B.clientContextId # ""
               THEN WsSend(B, ClientContextMsg(B.clientContextId, B.discussionPoints))
               ELSE WsSend(B, SetPointsMsg(B.discussionPoints))
        ELSE B

handleDiscussionSuggestions(S, points) ==
  IF points = <<>> THEN S ELSE activateTrackerWithPoints(S, points)

(* points: the items of data.points, each with its text and status. *)
handleDiscussionTrackerUpdate(S, points) ==
  IF points = <<>> THEN S
  ELSE
    LET A == IF S.trackerSetupMode = "auto" /\ ~S.discussionTrackerMode
               THEN [S EXCEPT !.discussionTrackerMode = TRUE,
                              !.trackerSetupMode = "active",
                              !.trackerAutoWaitingHidden = TRUE,
                              !.trackerItemsHidden = FALSE,
                              !.discussionPoints =
                                 [i \in 1..Len(points) |-> points[i].text]]
               ELSE S
    IN  renderDiscussionTracker(A, points)

showManualEntry(S) ==
  [S EXCEPT !.trackerSetupMode = "manual",
            !.trackerModeSelectorHidden = TRUE,
            !.trackerManualEntryHidden = FALSE,
            !.trackerAutoWaitingHidden = TRUE,
            !.trackerItemsHidden = TRUE]

(* points: the trimmed, non-empty values of the manual entry inputs. *)
confirmManualPoints(S, points) ==
  IF Len(points) = 0 THEN S ELSE activateTrackerWithPoints(S, points)

(* showAutoSuggest up to the await of fetch. *)
showAutoSuggest(S) ==
  [S EXCEPT !.trackerSetupMode = "auto",
            !.autoSuggestRequested = TRUE,
            !.trackerModeSelectorHidden = TRUE,
            !.trackerManualEntryHidden = TRUE,
            !.trackerAutoWaitingHidden = FALSE,
            !.trackerItemsHidden = TRUE,
            !.autoFetches = @ + 1]

(* showAutoSuggest after the fetch settled: points is data.points, empty *)
(* when the request failed or returned none (only the waiting text is *)
(* changed then). *)
autoSuggestSettled(S, points) ==
  LET A == [S EXCEPT !.autoFetches = @ - 1]
  IN  IF Len(points) > 0 THEN activateTrackerWithPoints(A, points) ELSE A

(* loadClientContext: clientId is the "client" URL parameter ("" when *)
(* absent), points the list stored by the pre-call page. *)
loadClientContext(S, clientId, points) ==
  LET A == IF clientId # ""
             THEN [S EXCEPT !.clientContextId = clientId,
                            !.discussionPoints = points]
             ELSE S
  IN  IF Len(A.discussionPoints) > 0
        THEN activateTrackerWithPoints(A, A.discussionPoints)
        ELSE A

(* ---------------------------- pre-call page ---------------------------- *)
(* String.prototype.trim on the strings of the model. *)
Trim(v) == IF v = " " THEN "" ELSE IF v = " p2 " THEN "p2" ELSE v

(* JSON.stringify of an array of strings and JSON.parse of the result. *)
JsonStringify(points) == [present |-> TRUE, value |-> points]
JsonParse(item) == item.value

(* searchClients(query) up to its await: the request is in flight. *)
searchClients(P, query) ==
  [P EXCEPT !.qseq = @ + 1,
            !.fetches = @ \cup {[id |-> P.qseq + 1, q |-> query]}]

(* The "input" listener of the search box; v is the new content. *)
searchInputListener(P, v) ==
  LET A == [P EXCEPT !.value = v,
                     !.timers = { t \in @ : t.id # P.searchTimeout }]
      q == Trim(v)
  IN  IF q = ""
        THEN [A EXCEPT !.shown = NoShown, !.visible = FALSE]
        ELSE [A EXCEPT !.qseq = @ + 1,
                       !.timers = @ \cup {[id |-> A.qseq + 1, q |-> q]},
                       !.searchTimeout = A.qseq + 1]

(* The "focus" listener of the search box. *)
searchFocusListener(P) ==
  IF Trim(P.value) # "" THEN searchClients(P, Trim(P.value)) ELSE P

(* searchClients after its awaits: renderSearchResults(clients), or the *)
(* catch block. *)
searchSettled(P, f, ok) ==
  LET A == [P EXCEPT !.fetches = @ \ {f}]
  IN  IF ok THEN [A EXCEPT !.shown = f, !.visible = TRUE] ELSE A

(* selectClient after its awaits. *)
selectClientSettled(P, c, ok) ==
  LET A == [P EXCEPT !.clientFetches = @ \ {c}]
  IN  IF ok THEN [A EXCEPT !.selectedClient = c, !.value = c.name] ELSE A

(* The points collected by the click listener of startCallBtn. *)
CollectPoints(inputs) ==
  SelectSeq([i \in 1..Len(inputs) |-> Trim(inputs[i])], LAMBDA v : v # "")

(* Mutant of startCallStore: the points are stored untrimmed. *)
startCallStoreRaw(P) ==
  [P EXCEPT !.storage =
              [wingman_client_id |-> P.selectedClient.id,
               wingman_client_name |-> P.selectedClient.name,
               wingman_discussion_points |->
                  JsonStringify(SelectSeq(P.inputs, LAMBDA v : Trim(v) # ""))],
            !.search = P.selectedClient.id]

(* The click listener of startCallBtn from the first setItem on: the *)
(* three items are stored and the tab navigates to /?client=<id>. *)
startCallStore(P) ==
  [P EXCEPT !.storage =
              [wingman_client_id |-> P.selectedClient.id,
               wingman_client_name |-> P.selectedClient.name,
               wingman_discussion_points |->
                  JsonStringify(CollectPoints(P.inputs))],
            !.search = P.selectedClient.id]

(* loadClientContext reading the "client" URL parameter and the items of *)
(* sessionStorage. *)
loadClientContextFrom(S, search, storage) ==
  IF search # ""
    THEN loadClientContext(S,
           IF storage.wingman_client_id # ""
             THEN storage.wingman_client_id ELSE search,
           IF storage.wingman_discussion_points.present
             THEN JsonParse(storage.wingman_discussion_points) ELSE <<>>)
    ELSE loadClientContext(S, "", <<>>)

(* ---------------------------- suggestions ------------------------------ *)
handleSuggestionStart(S, id) ==
  LET c == Len(S.cards) + 1
  IN  [S EXCEPT !.cards = Append(@, [sid |-> id, text |-> <<>>,
                                     spinner |-> TRUE, rendered |-> FALSE]),
                !.suggestionsContainer = <<c>> \o @,
                !.activeSuggestions[id] = c]

(* Mutant of handleSuggestionChunk: the entry is not looked up by id, the *)
(* newest card takes the text. *)
handleSuggestionChunkNewestCard(S, id, text) ==
  IF S.cards = <<>> THEN S
  ELSE [S EXCEPT !.cards[Len(S.cards)].text = Append(@, text)]

handleSuggestionChunk(S, id, text) ==
  LET c == S.activeSuggestions[id]
  IN  IF c = 0 THEN S
      ELSE [S EXCEPT !.cards[c].text = Append(@, text)]

(* On had_suggestion the body is re-rendered from its text (bold markup, *)
(* coaching split): rendered. *)
handleSuggestionDone(S, id, had_suggestion) ==
  LET c == S.activeSuggestions[id]
  IN  IF c = 0 THEN S
      ELSE
        LET A == [S EXCEPT !.cards[c].spinner = FALSE]
            B == IF ~had_suggestion
                   THEN [A EXCEPT !.suggestionsContainer =
                                     SelectSeq(@, LAMBDA x : x # c)]
                   ELSE [A EXCEPT !.cards[c].rendered = TRUE]
        IN  [B EXCEPT !.activeSuggestions[id] = 0]

(* ----------------------------- word cloud ------------------------------ *)
(* topic.text.toLowerCase() *)
ToLowerCase(text) == IF text = "A" THEN "a" ELSE text

(* [...topics].sort((a, b) => b.weight - a.weight): stable, descending. *)
RECURSIVE InsertByWeight(_, _)
InsertByWeight(sorted, t) ==
  IF sorted = <<>> THEN <<t>>
  ELSE IF Head(sorted).weight >= t.weight
    THEN <<Head(sorted)>> \o InsertByWeight(Tail(sorted), t)
    ELSE <<t>> \o sorted

RECURSIVE SortByWeight(_)
SortByWeight(topics) ==
  IF topics = <<>> THEN <<>>
  ELSE InsertByWeight(SortByWeight(SubSeq(topics, 1, Len(topics) - 1)),
                      topics[Len(topics)])

(* Heaviest, lightest, second heaviest, second lightest, ... *)
RECURSIVE Interleave(_)
Interleave(sorted) ==
  IF Len(sorted) <= 1 THEN sorted
  ELSE << sorted[1], sorted[Len(sorted)] >>
         \o Interleave(SubSeq(sorted, 2, Len(sorted) - 1))

(* cloud.insertBefore(word, children[floor(length / 2)]) or appendChild. *)
InsertNearMiddle(children, word) ==
  LET mid == Len(children) \div 2
  IN  SubSeq(children, 1, mid) \o <<word>>
        \o SubSeq(children, mid + 1, Len(children))

(* The loop over the interleaved topics: a word is created for every *)
(* topic whose key is not in existingKeys. *)
RECURSIVE AddWords(_, _, _)
AddWords(W, topics, existingKeys) ==
  IF topics = <<>> THEN W
  ELSE
    LET topic == Head(topics)
        key == ToLowerCase(topic.text)
    IN  IF key \in existingKeys
          THEN AddWords(W, Tail(topics), existingKeys)
          ELSE AddWords(
                 [W EXCEPT !.seq = @ + 1,
                           !.children = InsertNearMiddle(@,
                              [id |-> W.seq + 1, topic |-> key,
                               weight |-> topic.weight])],
                 Tail(topics), existingKeys)

handleWordCloudUpdate(S, topics) ==
  IF topics = <<>> THEN S
  ELSE
    LET W == S.wordcloud
        keys == { ToLowerCase(topics[i].text) : i \in 1..Len(topics) }
        \* newTopics.set(key, topic): the last topic of a key wins
        newTopics(key) ==
          topics[CHOOSE i \in 1..Len(topics) :
                   /\ ToLowerCase(topics[i].text) = key
                   /\ \A j \in (i + 1)..Len(topics) :
                        ToLowerCase(topics[j].text) # key]
        existingKeys ==
          { W.children[i].topic : i \in 1..Len(W.children) } \cap keys
        A == [W EXCEPT
                !.children =
                   [i \in 1..Len(W.children) |->
                      IF W.children[i].topic \in keys
                        THEN [W.children[i] EXCEPT
                                !.weight = newTopics(W.children[i].topic).weight]
                        ELSE W.children[i]],
                !.timers = @ \cup { W.children[i].id :
                                      i \in { j \in 1..Len(W.children) :
                                                W.children[j].topic \notin keys } }]
    IN  [S EXCEPT !.wordcloud =
           AddWords(A, Interleave(SortByWeight(topics)), existingKeys)]

(* setTimeout(() => wordEl.remove(), 400) *)
wordRemoveCallback(S, id) ==
  [S EXCEPT !.wordcloud.children = SelectSeq(@, LAMBDA w : w.id # id)]

(* ------------------- intelligence and action items --------------------- *)
Range(seq) == { seq[i] : i \in 1..Len(seq) }

handleIntelligenceUpdate(S, data) ==
  LET has(k)     == k \in DOMAIN data.lists
      hasProfile == \E k \in {"family", "life_events", "interests", "career"} :
                      has(k) /\ Len(data.lists[k]) > 0
      hasIntel   == data.sentiment # "" \/ has("key_concerns")
  IN  IF ~hasProfile /\ ~hasIntel THEN S
      ELSE
        [S EXCEPT
           !.intelligenceBarHidden = FALSE,
           !.latestRiskProfile =
              IF data.risk_profile # "" THEN data.risk_profile ELSE @,
           !.latestSentiment =
              IF data.sentiment # "" THEN data.sentiment ELSE @,
           !.accumulatedProfile =
              [k \in ProfileKeys |->
                 IF has(k) /\ Len(data.lists[k]) > 0
                   THEN @[k] \cup Range(data.lists[k]) ELSE @[k]],
           !.latestClientTier =
              IF data.client_tier # "" /\ data.client_tier # "Unknown"
                THEN data.client_tier ELSE @]

handleTodoUpdate(S, items) ==
  IF Len(items) = 0 THEN S
  ELSE
    LET newItems == SelectSeq(items, LAMBDA item : item \notin S.knownTodoItems)
    IN  IF Len(newItems) = 0 THEN S
        ELSE [S EXCEPT !.knownTodoItems = @ \cup Range(newItems),
                       !.accumulatedTodoItems = @ \o newItems]

(* ------------------- audio worklet (AudioCaptureProcessor) ------------- *)
(* Int16Array element store: truncation toward zero, then modulo 2^16. *)
Trunc(num, den) == IF num < 0 THEN 0 - ((0 - num) \div den) ELSE num \div den

ToInt16(n) == ((n + 2^15) % 2^16) - 2^15

Clamp(x) == IF x < 0 - Unit THEN 0 - Unit ELSE IF x > Unit THEN Unit ELSE x

floatTo16BitPCM(floatSamples) ==
  [i \in 1..Len(floatSamples) |->
     LET x == Clamp(floatSamples[i])
     IN  ToInt16(Trunc(IF x < 0 THEN x * PCM_NEG ELSE x * PCM_POS, Unit))]

(* Mutant of process: the buffer is kept after a post. *)
processKeepsBuffer(S, input) ==
  IF Len(input) = 0 THEN S
  ELSE
    LET B == S.worklet.buffer \o input[1]
    IN  IF Len(B) >= bufferSize
          THEN [S EXCEPT !.worklet.buffer = B,
                         !.worklet.posted = Append(@, floatTo16BitPCM(B))]
          ELSE [S EXCEPT !.worklet.buffer = B]

(* process(inputs): input is inputs[0], a sequence of channels. *)
process(S, input) ==
  IF Len(input) = 0 THEN S
  ELSE
    LET B == S.worklet.buffer \o input[1]
    IN  IF Len(B) >= bufferSize
          THEN [S EXCEPT !.worklet.buffer = <<>>,
                         !.worklet.posted = Append(@, floatTo16BitPCM(B))]
          ELSE [S EXCEPT !.worklet.buffer = B]

(* ------------- server: the suggestion gate (specification) ------------- *)
(* Gate {lastFiredAt, charsAtLastFire}: it may fire only if *)
(* now - lastFiredAt >= cooldown and totalChars - charsAtLastFire >= *)
(* threshold. *)
(* Mutant of gateMayFire: the cooldown is not tested. *)
gateMayFireNoCooldown(S) ==
  S.totalChars - S.gate.charsAtLastFire >= MIN_NEW_CHARS_FOR_SUGGESTION

gateMayFire(S) ==
  /\ S.now - S.gate.lastFiredAt >= SUGGESTION_COOLDOWN_SECONDS
  /\ S.totalChars - S.gate.charsAtLastFire >= MIN_NEW_CHARS_FOR_SUGGESTION

(* A final transcript of n characters commits and the gate is polled. *)
gateObserve(S, n) ==
  LET A == [S EXCEPT !.totalChars = @ + n]
  IN  IF gateMayFire(A)
        THEN [A EXCEPT !.gate = [lastFiredAt |-> A.now,
                                 charsAtLastFire |-> A.totalChars],
                       !.fireLog = Append(@, [at |-> A.now,
                                              chars |-> A.totalChars])]
        ELSE A

(* ---------------------------- transcript ------------------------------- *)
speakerClassOf(speaker) ==
  IF speaker = "Client" THEN "speaker-client" ELSE "speaker-advisor"

(* Mutant of RemoveElement: every interim line is removed. *)
RemoveElementAllInterim(lines, id) ==
  SelectSeq(lines, LAMBDA l : l.kind # "interim")

(* element.remove() *)
RemoveElement(lines, id) == SelectSeq(lines, LAMBDA l : l.id # id)

(* Mutant of SetText: the text of every line is overwritten. *)
SetTextAll(lines, id, text) ==
  [i \in 1..Len(lines) |-> [lines[i] EXCEPT !.text = text]]

(* element.querySelector(".transcript-text").textContent = text *)
SetText(lines, id, text) ==
  [i \in 1..Len(lines) |->
     IF lines[i].id = id THEN [lines[i] EXCEPT !.text = text] ELSE lines[i]]

(* Mutant of handleTranscript: a partial event always creates a line. *)
handleTranscriptAppendsPartial(S, text, is_final, speaker) ==
  IF is_final
    THEN
      LET A == IF S.interimElements[speaker] # 0
                 THEN [S EXCEPT !.transcriptLines =
                                   RemoveElement(@, S.interimElements[speaker]),
                                !.interimElements[speaker] = 0]
                 ELSE S
          line == [id |-> A.lineSeq + 1, kind |-> "final",
                   speakerClass |-> speakerClassOf(speaker),
                   label |-> speaker, text |-> text]
      IN  [A EXCEPT !.lineSeq = @ + 1,
                    !.transcriptLines = Append(@, line)]
    ELSE
      LET line == [id |-> S.lineSeq + 1, kind |-> "interim",
                   speakerClass |-> speakerClassOf(speaker),
                   label |-> speaker, text |-> text]
      IN  [S EXCEPT !.lineSeq = @ + 1,
                    !.transcriptLines = Append(@, line),
                    !.interimElements[speaker] = line.id]

handleTranscript(S, text, is_final, speaker) ==
  IF is_final
    THEN
      LET A == IF S.interimElements[speaker] # 0
                 THEN [S EXCEPT !.transcriptLines =
                                   RemoveElement(@, S.interimElements[speaker]),
                                !.interimElements[speaker] = 0]
                 ELSE S
          line == [id |-> A.lineSeq + 1, kind |-> "final",
                   speakerClass |-> speakerClassOf(speaker),
                   label |-> speaker, text |-> text]
      IN  [A EXCEPT !.lineSeq = @ + 1,
                    !.transcriptLines = Append(@, line)]
    ELSE
      LET A == IF S.interimElements[speaker] = 0
                 THEN LET line == [id |-> S.lineSeq + 1, kind |-> "interim",
                                   speakerClass |-> speakerClassOf(speaker),
                                   label |-> speaker, text |-> ""]
                      IN  [S EXCEPT !.lineSeq = @ + 1,
                                    !.transcriptLines = Append(@, line),
                                    !.interimElements[speaker] = line.id]
                 ELSE S
      IN  [A EXCEPT !.transcriptLines =
                       SetText(@, A.interimElements[speaker], text)]

clearAll(S) ==
  [S EXCEPT !.transcriptLines = <<>>,
            !.lineSeq = 0,
            !.suggestionsContainer = <<>>,
            !.wordcloud.children = <<>>,
            !.discussionPoints = <<>>,
            !.discussionTrackerMode = FALSE,
            !.trackerSetupMode = "none",
            !.autoSuggestRequested = FALSE,
            !.trackerModeSelectorHidden = FALSE,
            !.trackerManualEntryHidden = TRUE,
            !.trackerAutoWaitingHidden = TRUE,
            !.trackerItemsHidden = TRUE,
            !.trackerItems = <<>>,
            !.clientContextId = "",
            !.accumulatedProfile = [k \in ProfileKeys |-> {}],
            !.latestSentiment = "", !.latestRiskProfile = "",
            !.latestClientTier = "", !.intelligenceBarHidden = TRUE,
            !.knownTodoItems = {}, !.accumulatedTodoItems = <<>>,
            !.interimElements = [sp \in Speakers |-> 0]]


(* ------------------------------ Init ----------------------------------- *)
(* Module-level initialisers of app.js and the default state of the page. *)
PageLoad ==
  [ pc |-> "idle", isSimulation |-> FALSE, sources |-> <<>>,
    connArgs |-> [sampleRate |-> 0, sources |-> <<>>, mode |-> ""],
    micStream |-> FALSE, speakerStream |-> FALSE, micWorklet |-> FALSE,
    speakerWorklet |-> FALSE, audioContext |-> FALSE,
    hasSpeakerAudio |-> FALSE, websocket |-> 0, nsock |-> 0,
    readyState |-> [s \in Sockets |-> "NONE"],
    sent |-> [s \in Sockets |-> <<>>],
    summaryReplied |-> {}, isListening |-> FALSE,
    waitingForSummary |-> FALSE, pingInterval |-> FALSE,
    timerInterval |-> FALSE, summaryTimeout |-> 0, timers |-> {},
    ntimers |-> 0, ctxTimers |-> 0,
    startBtnHidden |-> FALSE, startBtnDisabled |-> FALSE,
    stopBtnHidden |-> TRUE, meetingTimerHidden |-> TRUE,
    modalHidden |-> TRUE, modalFooterHidden |-> TRUE,
    modalBody |-> "initial", statusDot |-> "idle",
    coachingToggle |-> FALSE, clientContextId |-> "",
    discussionPoints |-> <<>>, discussionTrackerMode |-> FALSE,
    trackerSetupMode |-> "none",
    trackerModeSelectorHidden |-> FALSE, trackerManualEntryHidden |-> TRUE,
    trackerAutoWaitingHidden |-> TRUE, trackerItemsHidden |-> TRUE,
    trackerItems |-> <<>>,
    transcriptLines |-> <<>>, interimElements |-> [sp \in Speakers |-> 0],
    autoSuggestRequested |-> FALSE,
    autoFetches |-> 0,
    accumulatedProfile |-> [k \in ProfileKeys |-> {}],
    latestSentiment |-> "",
    latestRiskProfile |-> "",
    latestClientTier |-> "",
    intelligenceBarHidden |-> TRUE,
    knownTodoItems |-> {},
    accumulatedTodoItems |-> <<>>,
    receivedProfile |-> [k \in ProfileKeys |-> {}],
    now |-> 0,
    totalChars |-> 0,
    gate |-> [lastFiredAt |-> 0 - SUGGESTION_COOLDOWN_SECONDS,
             charsAtLastFire |-> 0],
    fireLog |-> <<>>,
    cards |-> <<>>,
    suggestionsContainer |-> <<>>,
    activeSuggestions |-> [id \in SuggestionIds |-> 0],
    streaming |-> [s \in Sockets |-> 0],
    worklet |-> [buffer |-> <<>>, posted |-> <<>>, input |-> <<>>],
    wordcloud |-> [children |-> <<>>, timers |-> {}, seq |-> 0, last |-> {}],
    precall |-> PreCallLoad,
    lineSeq |-> 0, finalsLog |-> <<>> ]

(* What the pre-call page may have left for loadClientContext. *)
PreCallContexts ==
  { [clientId |-> "", points |-> <<>>],
    [clientId |-> "c1", points |-> <<>>],
    [clientId |-> "c1", points |-> <<"p1">>] }

Init ==
  \E ctx \in PreCallContexts :
    IsState(loadClientContext(PageLoad, ctx.clientId, ctx.points))

(* The pre-call page opened in a new tab. *)
InitPreCall == IsState([PageLoad EXCEPT !.precall.page = "precall"])

(* The page opened directly: no "client" URL parameter, nothing stored. *)
InitDirect == IsState(loadClientContext(PageLoad, "", <<>>))

(* ----------------------------- actions --------------------------------- *)
(* Click on Start: startListening up to the first await of *)
(* startAudioCapture.  sim is simulationToggle.checked. *)
StartClick(sim) ==
  /\ ~startBtnHidden /\ ~startBtnDisabled
  /\ nsock < MaxSockets
  /\ IF isListening
       THEN Commit(Cur)
       ELSE LET A == setStatus([Cur EXCEPT !.startBtnDisabled = TRUE,
                                           !.isSimulation = sim,
                                           !.sources = <<>>], "connecting")
            IN  IF ~sim
                  THEN Commit([A EXCEPT !.pc = "mic"])
                  ELSE Commit([A EXCEPT !.hasSpeakerAudio = FALSE,
                                        !.pc = "display"])

(* getUserMedia settles.  sysAudio is systemAudioCheckbox.checked. *)
MicResolved(ok, sysAudio) ==
  /\ pc = "mic"
  /\ IF ~ok
       THEN Commit(startFailed(Cur, "error"))
       ELSE LET A == [Cur EXCEPT !.micStream = TRUE, !.sources = <<"mic">>,
                                 !.hasSpeakerAudio = FALSE]
            IN  IF sysAudio
                  THEN Commit([A EXCEPT !.pc = "display"])
                  ELSE Commit(afterStreams(A))

(* getDisplayMedia settles: a stream with an audio track, a stream without *)
(* one, or a rejection (dialog cancelled, unsupported). *)
DisplayResolved(outcome) ==
  /\ pc = "display"
  /\ LET A == IF outcome = "audio"
                THEN [Cur EXCEPT !.speakerStream = TRUE,
                                 !.hasSpeakerAudio = TRUE,
                                 !.sources = Append(@, "speaker")]
                ELSE [Cur EXCEPT !.speakerStream = FALSE]
     IN  Commit(afterStreams(A))

(* The screen-share audio track ends: track.onended. *)
SpeakerEnded ==
  /\ speakerStream /\ hasSpeakerAudio
  /\ Commit([Cur EXCEPT !.hasSpeakerAudio = FALSE])

(* audioContext.resume / audioWorklet.addModule settle; on success the *)
(* worklets are created, startAudioCapture returns and connectWebSocket *)
(* creates the socket. *)
WorkletsReady(ok, sr) ==
  /\ pc = "worklets"
  /\ IF ~ok
       THEN Commit(startFailed(Cur, "error"))
       ELSE LET A == [Cur EXCEPT
                        !.micWorklet =
                            IF ~Cur.isSimulation /\ Cur.micStream
                              THEN TRUE ELSE @,
                        !.speakerWorklet =
                            IF Cur.hasSpeakerAudio /\ Cur.speakerStream
                              THEN TRUE ELSE @]
                md == IF A.isSimulation THEN "simulation" ELSE "live"
                s == A.nsock + 1
            IN  Commit([A EXCEPT !.nsock = s, !.websocket = s,
                                 !.readyState[s] = "CONNECTING",
                                 !.connArgs = [sampleRate |-> sr,
                                               sources |-> A.sources,
                                               mode |-> md],
                                 !.pc = "connecting"])

(* The connection is established: readyState OPEN and the open event. *)
SocketOpen(s) ==
  /\ readyState[s] = "CONNECTING"
  /\ Commit(onopen([Cur EXCEPT !.readyState[s] = "OPEN"]))

(* The connection fails before it opened: error event (the promise is *)
(* rejected, the catch block of startListening runs), then close event. *)
SocketFail(s) ==
  /\ readyState[s] = "CONNECTING"
  /\ LET A == setStatus([Cur EXCEPT !.readyState[s] = "CLOSED"],
                        "error")
     IN  Commit(onclose(startFailed(A, "error")))

(* The server starts the closing handshake: readyState CLOSING, no event. *)
ServerClosing(s) ==
  /\ readyState[s] = "OPEN"
  /\ Commit([Cur EXCEPT !.readyState[s] = "CLOSING"])

(* The connection is closed: readyState CLOSED, an error event when the *)
(* closure was abnormal, then the close event. *)
SocketClosed(s, abnormal) ==
  /\ readyState[s] \in {"OPEN", "CLOSING"}
  /\ LET A == [Cur EXCEPT !.readyState[s] = "CLOSED"]
         B == IF abnormal THEN setStatus(A, "error") ELSE A
         C == IF abnormal /\ B.pc = "connecting" /\ s = B.nsock
                THEN startFailed(B, "error") ELSE B
     IN  Commit(onclose(C))

StopClick ==
  /\ ~stopBtnHidden
  /\ Commit(stopListening(Cur))

ModalCloseClick ==
  /\ ~modalHidden
  /\ Commit(closePostCallModal(Cur))

SummaryTimerFire(t) ==
  /\ t \in timers
  /\ Commit(summaryTimeoutCallback([Cur EXCEPT !.timers = @ \ {t}]))

(* The server answers a generate_summary request, once per connection. *)
ServerPostCallSummary(s, kind) ==
  /\ readyState[s] = "OPEN"
  /\ s \notin summaryReplied
  /\ \E i \in 1..Len(sent[s]) : sent[s][i].type = "generate_summary"
  /\ Commit(handlePostCallSummary(
              [Cur EXCEPT !.summaryReplied = @ \cup {s}], kind))

ServerDiscussionSuggestions(s, points) ==
  /\ readyState[s] = "OPEN"
  /\ Commit(handleDiscussionSuggestions(Cur, points))

ServerSuggestionStart(s, id) ==
  /\ readyState[s] = "OPEN"
  /\ Commit(handleSuggestionStart(Cur, id))

ServerSuggestionChunk(s, id, text) ==
  /\ readyState[s] = "OPEN"
  /\ Commit(handleSuggestionChunk(Cur, id, text))

ServerSuggestionDone(s, id, had_suggestion) ==
  /\ readyState[s] = "OPEN"
  /\ Commit(handleSuggestionDone(Cur, id, had_suggestion))

(* Server: the suggestion task of a session.  A fire request while one is *)
(* streaming is a no-op; a task emits start, chunks, then one done. *)
TaskStart(s, id) ==
  /\ readyState[s] = "OPEN"
  /\ streaming[s] = 0
  /\ Commit(handleSuggestionStart([Cur EXCEPT !.streaming[s] = id], id))

TaskChunk(s, text) ==
  /\ readyState[s] = "OPEN"
  /\ streaming[s] # 0
  /\ Commit(handleSuggestionChunk(Cur, streaming[s], text))

TaskDone(s, had_suggestion) ==
  /\ readyState[s] = "OPEN"
  /\ streaming[s] # 0
  /\ Commit(handleSuggestionDone([Cur EXCEPT !.streaming[s] = 0],
                                 streaming[s], had_suggestion))

(* Server: a second passes on the injected clock. *)
(* ------------------------ pre-call page events ------------------------- *)
SearchInput(v) ==
  /\ precall.page = "precall"
  /\ v # precall.value
  /\ Commit([Cur EXCEPT !.precall = searchInputListener(@, v)])

SearchFocus ==
  /\ precall.page = "precall"
  /\ Commit([Cur EXCEPT !.precall = searchFocusListener(@)])

(* The debounce timer fires: searchClients(q). *)
SearchTimerFire(t) ==
  /\ precall.page = "precall"
  /\ t \in precall.timers
  /\ Commit([Cur EXCEPT !.precall =
               searchClients([@ EXCEPT !.timers = @ \ {t}], t.q)])

SearchSettled(f, ok) ==
  /\ precall.page = "precall"
  /\ f \in precall.fetches
  /\ Commit([Cur EXCEPT !.precall = searchSettled(@, f, ok)])

(* A click outside the search section. *)
DocumentClick ==
  /\ precall.page = "precall"
  /\ precall.visible
  /\ Commit([Cur EXCEPT !.precall.visible = FALSE])

(* A click on an item of the displayed results: selectClient up to its *)
(* await. *)
ResultClick(c) ==
  /\ precall.page = "precall"
  /\ precall.visible /\ precall.shown.id # 0
  /\ c \notin precall.clientFetches
  /\ Commit([Cur EXCEPT !.precall.visible = FALSE,
                        !.precall.clientFetches = @ \cup {c}])

SelectClientSettled(c, ok) ==
  /\ precall.page = "precall"
  /\ c \in precall.clientFetches
  /\ Commit([Cur EXCEPT !.precall = selectClientSettled(@, c, ok)])

(* The user edits a discussion input. *)
PointInput(i, v) ==
  /\ precall.page = "precall"
  /\ v # precall.inputs[i]
  /\ Commit([Cur EXCEPT !.precall.inputs[i] = v])

(* Click on Start Call; confirmed is the answer to the confirm dialog. *)
(* After the navigation the call page loads in the same tab: its module *)
(* state is initialised and loadClientContext runs; timers and fetches *)
(* of the pre-call document are gone. *)
StartCallClick(confirmed) ==
  /\ precall.page = "precall"
  /\ IF precall.selectedClient = NoClient
       THEN Commit(Cur)
     ELSE IF CollectPoints(precall.inputs) = <<>> /\ ~confirmed
       THEN Commit(Cur)
     ELSE LET P == [startCallStore(precall) EXCEPT
                      !.page = "call", !.timers = {}, !.fetches = {},
                      !.clientFetches = {}]
          IN  Commit(loadClientContextFrom([PageLoad EXCEPT !.precall = P],
                                           P.search, P.storage))

ServerWordCloudUpdate(s, topics) ==
  /\ readyState[s] = "OPEN"
  /\ Commit([handleWordCloudUpdate(Cur, topics) EXCEPT
               !.wordcloud.last =
                  IF topics = <<>> THEN @
                  ELSE { ToLowerCase(topics[i].text) : i \in 1..Len(topics) }])

(* A removal timer of the word cloud fires. *)
WordRemoveTimerFire(id) ==
  /\ id \in wordcloud.timers
  /\ Commit(wordRemoveCallback([Cur EXCEPT !.wordcloud.timers = @ \ {id}], id))

(* The audio system calls process with the next render block. *)
WorkletProcess(input) ==
  Commit([process(Cur, input) EXCEPT
            !.worklet.input = IF Len(input) = 0 THEN @ ELSE @ \o input[1]])

ClockTick == Commit([Cur EXCEPT !.now = @ + 1])

(* Server: a final transcript of n characters commits. *)
TranscriptCommit(n) == Commit(gateObserve(Cur, n))

ServerIntelligenceUpdate(s, data) ==
  /\ readyState[s] = "OPEN"
  /\ Commit([handleIntelligenceUpdate(Cur, data) EXCEPT
               !.receivedProfile =
                  [k \in ProfileKeys |->
                     IF k \in DOMAIN data.lists
                       THEN @[k] \cup Range(data.lists[k]) ELSE @[k]]])

ServerTodoUpdate(s, items) ==
  /\ readyState[s] = "OPEN"
  /\ Commit(handleTodoUpdate(Cur, items))

ServerDiscussionTrackerUpdate(s, points) ==
  /\ readyState[s] = "OPEN"
  /\ Commit(handleDiscussionTrackerUpdate(Cur, points))

(* Clicks on the tracker's mode buttons, which are inside the containers *)
(* the handlers hide and show. *)
TrackerManualClick ==
  /\ ~trackerModeSelectorHidden
  /\ Commit(showManualEntry(Cur))

TrackerConfirmClick(points) ==
  /\ ~trackerManualEntryHidden
  /\ Commit(confirmManualPoints(Cur, points))

TrackerAutoClick ==
  /\ ~trackerModeSelectorHidden
  /\ autoFetches < MaxFetches
  /\ Commit(showAutoSuggest(Cur))

AutoSuggestSettled(points) ==
  /\ autoFetches > 0
  /\ Commit(autoSuggestSettled(Cur, points))

ServerTranscript(s, text, is_final, speaker) ==
  /\ readyState[s] = "OPEN"
  /\ Commit([handleTranscript(Cur, text, is_final, speaker) EXCEPT
               !.finalsLog = IF is_final
                               THEN Append(@, [speaker |-> speaker,
                                               text |-> text])
                               ELSE @])

PingTick ==
  /\ pingInterval
  /\ Commit(IF WsOpen(Cur) THEN WsSend(Cur, PingMsg) ELSE Cur)

CoachingChange ==
  LET A == [Cur EXCEPT !.coachingToggle = ~Cur.coachingToggle]
  IN  Commit(IF WsOpen(A) THEN WsSend(A, CoachingMsg(A.coachingToggle)) ELSE A)

ClientContextTimerFire ==
  /\ ctxTimers > 0
  /\ Commit(sendClientContext([Cur EXCEPT !.ctxTimers = @ - 1]))

MicWorkletMessage(chunk) ==
  /\ micWorklet
  /\ Commit(sendAudioPacket(Cur, SOURCE_MIC, chunk))

SpeakerWorkletMessage(chunk) ==
  /\ speakerWorklet
  /\ Commit(sendAudioPacket(Cur, SOURCE_SPEAKER, chunk))

ClearClick ==
  Commit([clearAll(Cur) EXCEPT !.finalsLog = <<>>,
                               !.wordcloud.last = {},
                               !.receivedProfile = [k \in ProfileKeys |-> {}]])

(* ------------------------- specifications ------------------------------ *)
(* Every event of the page except the transcript. *)
Next ==
  \/ \E sim \in BOOLEAN : StartClick(sim)
  \/ \E ok \in BOOLEAN, sysAudio \in BOOLEAN : MicResolved(ok, sysAudio)
  \/ \E outcome \in {"audio", "noaudio", "fail"} : DisplayResolved(outcome)
  \/ SpeakerEnded
  \/ \E ok \in BOOLEAN, sr \in SampleRates : WorkletsReady(ok, sr)
  \/ \E s \in Sockets : SocketOpen(s)
  \/ \E s \in Sockets : SocketFail(s)
  \/ \E s \in Sockets : ServerClosing(s)
  \/ \E s \in Sockets, abnormal \in BOOLEAN : SocketClosed(s, abnormal)
  \/ StopClick
  \/ ModalCloseClick
  \/ \E t \in TimerIds : SummaryTimerFire(t)
  \/ \E s \in Sockets, kind \in {"error", "summary"} :
       ServerPostCallSummary(s, kind)
  \/ \E s \in Sockets, points \in PointLists :
       ServerDiscussionSuggestions(s, points)
  \/ PingTick
  \/ CoachingChange
  \/ ClientContextTimerFire
  \/ \E chunk \in Chunks : MicWorkletMessage(chunk)
  \/ \E chunk \in Chunks : SpeakerWorkletMessage(chunk)
  \/ ClearClick

Spec == Init /\ [][Next]_vars

(* What the page sends: sessions that start, stream audio, ping, toggle *)
(* coaching, seed the tracker and are stopped or closed by the server. *)
NextW ==
  \/ \E sim \in BOOLEAN : StartClick(sim)
  \/ \E sysAudio \in BOOLEAN : MicResolved(TRUE, sysAudio)
  \/ \E outcome \in {"audio", "noaudio", "fail"} : DisplayResolved(outcome)
  \/ \E sr \in SampleRates : WorkletsReady(TRUE, sr)
  \/ \E s \in Sockets : SocketOpen(s)
  \/ \E s \in Sockets : ServerClosing(s)
  \/ \E s \in Sockets : SocketClosed(s, FALSE)
  \/ StopClick
  \/ ModalCloseClick
  \/ \E s \in Sockets, points \in PointLists :
       ServerDiscussionSuggestions(s, points)
  \/ PingTick
  \/ CoachingChange
  \/ ClientContextTimerFire
  \/ \E chunk \in Chunks : MicWorkletMessage(chunk)
  \/ \E chunk \in Chunks : SpeakerWorkletMessage(chunk)
  \/ ClearClick

SpecW == Init /\ [][NextW]_vars

(* The discussion tracker over sessions started live with the microphone. *)
NextK ==
  \/ StartClick(FALSE)
  \/ MicResolved(TRUE, FALSE)
  \/ \E sr \in SampleRates : WorkletsReady(TRUE, sr)
  \/ \E s \in Sockets : SocketOpen(s)
  \/ \E s \in Sockets : SocketClosed(s, FALSE)
  \/ ClientContextTimerFire
  \/ \E s \in Sockets, points \in PointLists \cup {<<>>} :
       ServerDiscussionSuggestions(s, points)
  \/ \E s \in Sockets, points \in TrackerUpdates :
       ServerDiscussionTrackerUpdate(s, points)
  \/ TrackerManualClick
  \/ \E points \in PointLists \cup {<<>>} : TrackerConfirmClick(points)
  \/ TrackerAutoClick
  \/ \E points \in PointLists \cup {<<>>} : AutoSuggestSettled(points)
  \/ ClearClick

SpecK == Init /\ [][NextK]_vars

(* What the page accumulates for the post-call report over the sessions *)
(* of a page opened directly. *)
NextP ==
  \/ StartClick(FALSE)
  \/ MicResolved(TRUE, FALSE)
  \/ \E sr \in SampleRates : WorkletsReady(TRUE, sr)
  \/ \E s \in Sockets : SocketOpen(s)
  \/ \E s \in Sockets : SocketClosed(s, FALSE)
  \/ StopClick
  \/ ModalCloseClick
  \/ \E s \in Sockets, data \in IntelUpdates :
       ServerIntelligenceUpdate(s, data)
  \/ \E s \in Sockets, items \in TodoLists : ServerTodoUpdate(s, items)
  \/ ClearClick

SpecP == InitDirect /\ [][NextP]_vars

(* The suggestion cards under any order of suggestion events on one *)
(* connection of a page opened directly. *)
NextU ==
  \/ StartClick(FALSE)
  \/ MicResolved(TRUE, FALSE)
  \/ \E sr \in SampleRates : WorkletsReady(TRUE, sr)
  \/ \E s \in Sockets : SocketOpen(s)
  \/ \E s \in Sockets, id \in SuggestionIds : ServerSuggestionStart(s, id)
  \/ \E s \in Sockets, id \in SuggestionIds, text \in Texts :
       ServerSuggestionChunk(s, id, text)
  \/ \E s \in Sockets, id \in SuggestionIds, had \in BOOLEAN :
       ServerSuggestionDone(s, id, had)
  \/ ClearClick

SpecU == InitDirect /\ [][NextU]_vars

(* The suggestion cards over sessions whose server streams one suggestion *)
(* task at a time. *)
NextV ==
  \/ StartClick(FALSE)
  \/ MicResolved(TRUE, FALSE)
  \/ \E sr \in SampleRates : WorkletsReady(TRUE, sr)
  \/ \E s \in Sockets : SocketOpen(s)
  \/ \E s \in Sockets : SocketClosed(s, FALSE)
  \/ StopClick
  \/ ModalCloseClick
  \/ \E s \in Sockets, id \in SuggestionIds : TaskStart(s, id)
  \/ \E s \in Sockets, text \in Texts : TaskChunk(s, text)
  \/ \E s \in Sockets, had \in BOOLEAN : TaskDone(s, had)

SpecV == InitDirect /\ [][NextV]_vars

(* Server: the suggestion gate against the clock and the transcript. *)
NextG ==
  \/ ClockTick
  \/ \E n \in CommitSizes : TranscriptCommit(n)

SpecG == InitDirect /\ [][NextG]_vars

(* The life of the sessions of a page opened directly: start, failures, *)
(* stop, summary, timeout, close. *)
NextS ==
  \/ \E sim \in BOOLEAN : StartClick(sim)
  \/ \E ok \in BOOLEAN, sysAudio \in BOOLEAN : MicResolved(ok, sysAudio)
  \/ \E outcome \in {"audio", "noaudio", "fail"} : DisplayResolved(outcome)
  \/ SpeakerEnded
  \/ \E ok \in BOOLEAN, sr \in SampleRates : WorkletsReady(ok, sr)
  \/ \E s \in Sockets : SocketOpen(s)
  \/ \E s \in Sockets : SocketFail(s)
  \/ \E s \in Sockets : ServerClosing(s)
  \/ \E s \in Sockets, abnormal \in BOOLEAN : SocketClosed(s, abnormal)
  \/ StopClick
  \/ ModalCloseClick
  \/ \E t \in TimerIds : SummaryTimerFire(t)
  \/ \E s \in Sockets, kind \in {"error", "summary"} :
       ServerPostCallSummary(s, kind)

SpecS == InitDirect /\ [][NextS]_vars

(* The summary wait of live, microphone-only sessions of a page opened *)
(* directly: everything that can happen between Stop and the next Start. *)
NextF ==
  \/ StartClick(FALSE)
  \/ MicResolved(TRUE, FALSE)
  \/ \E sr \in SampleRates : WorkletsReady(TRUE, sr)
  \/ \E s \in Sockets : SocketOpen(s)
  \/ \E s \in Sockets : ServerClosing(s)
  \/ \E s \in Sockets, abnormal \in BOOLEAN : SocketClosed(s, abnormal)
  \/ StopClick
  \/ ModalCloseClick
  \/ \E t \in TimerIds : SummaryTimerFire(t)
  \/ \E s \in Sockets, kind \in {"error", "summary"} :
       ServerPostCallSummary(s, kind)

(* Timers armed with setTimeout fire. *)
FairSpec ==
  /\ InitDirect /\ [][NextF]_vars
  /\ WF_vars(\E t \in TimerIds : SummaryTimerFire(t))

(* The transcript of one live, microphone-only session of a page opened *)
(* directly. *)
NextT ==
  \/ StartClick(FALSE)
  \/ MicResolved(TRUE, FALSE)
  \/ \E sr \in SampleRates : WorkletsReady(TRUE, sr)
  \/ \E s \in Sockets : SocketOpen(s)
  \/ \E s \in Sockets, text \in Texts, is_final \in BOOLEAN,
        speaker \in Speakers : ServerTranscript(s, text, is_final, speaker)
  \/ ClearClick

SpecT == InitDirect /\ [][NextT]_vars


(* The search box of the pre-call page. *)
NextQ ==
  \/ \E v \in SearchValues : SearchInput(v)
  \/ SearchFocus
  \/ \E t \in [id : 1..MaxQueries, q : SearchValues] : SearchTimerFire(t)
  \/ \E f \in [id : 1..MaxQueries, q : SearchValues], ok \in BOOLEAN :
       SearchSettled(f, ok)
  \/ DocumentClick
  \/ \E c \in Clients : ResultClick(c)
  \/ \E c \in Clients, ok \in BOOLEAN : SelectClientSettled(c, ok)

SpecQ == InitPreCall /\ [][NextQ]_vars

(* From the pre-call page to the first messages of the call: one search, *)
(* a client selected, points entered, Start Call, then a live session. *)
NextR ==
  \/ SearchInput("a")
  \/ \E t \in [id : 1..MaxQueries, q : SearchValues] : SearchTimerFire(t)
  \/ \E f \in [id : 1..MaxQueries, q : SearchValues] : SearchSettled(f, TRUE)
  \/ \E c \in Clients : ResultClick(c)
  \/ \E c \in Clients : SelectClientSettled(c, TRUE)
  \/ \E i \in 1..2, v \in PointValues : PointInput(i, v)
  \/ \E confirmed \in BOOLEAN : StartCallClick(confirmed)
  \/ precall.page = "call" /\ StartClick(FALSE)
  \/ MicResolved(TRUE, FALSE)
  \/ \E sr \in SampleRates : WorkletsReady(TRUE, sr)
  \/ \E s \in Sockets : SocketOpen(s)
  \/ ClientContextTimerFire

SpecR == InitPreCall /\ [][NextR]_vars

(* The word cloud of one live, microphone-only session. *)
NextC ==
  \/ StartClick(FALSE)
  \/ MicResolved(TRUE, FALSE)
  \/ \E sr \in SampleRates : WorkletsReady(TRUE, sr)
  \/ \E s \in Sockets : SocketOpen(s)
  \/ \E s \in Sockets, topics \in TopicLists : ServerWordCloudUpdate(s, topics)
  \/ \E id \in 1..MaxWords : WordRemoveTimerFire(id)

SpecC == InitDirect /\ [][NextC]_vars

(* The audio worklet alone. *)
NextA == \E input \in Inputs : WorkletProcess(input)

SpecA == InitDirect /\ [][NextA]_vars


(* ============================== claims ================================= *)
HasType(log, t) == \E i \in 1..Len(log) : log[i].type = t
CountType(log, t) == Cardinality({i \in 1..Len(log) : log[i].type = t})
CaptureStopped ==
  /\ ~micWorklet /\ ~speakerWorklet /\ ~audioContext
  /\ ~micStream /\ ~speakerStream /\ ~hasSpeakerAudio

(* C1: on every open connection the config message has been sent and is *)
(* the first message of the connection: every audio frame and every other *)
(* control message comes after it. *)
ConfigIsFirstMessage ==
  \A s \in Sockets :
    /\ readyState[s] = "OPEN" => Len(sent[s]) >= 1
    /\ sent[s] # <<>> => sent[s][1].type = "config"
    /\ \A i \in 2..Len(sent[s]) : sent[s][i].type # "config"

(* C1 witness: a connection on which the config message was followed by *)
(* an audio frame and by a control message. *)
ConfigThenTraffic ==
  \E s \in Sockets :
    /\ Len(sent[s]) = 3
    /\ sent[s][1].type = "config"
    /\ HasType(sent[s], "audio")
    /\ \E t \in {"ping", "coaching_mode", "client_context",
                 "set_discussion_points", "generate_summary"} :
         HasType(sent[s], t)

(* The messages of the step: what sent gains on the global websocket. *)
SentNothing == sent' = sent
SentOneFrame(tag, chunk) ==
  /\ websocket # 0
  /\ \A s \in Sockets \ {websocket} : sent'[s] = sent[s]
  /\ LET old == sent[websocket]
         new == sent'[websocket]
     IN  /\ Len(new) = Len(old) + 1
         /\ SubSeq(new, 1, Len(old)) = old
         /\ new[Len(new)].type = "audio"
         /\ Len(new[Len(new)].bytes) = 1 + Len(chunk)
         /\ new[Len(new)].bytes[1] = tag
         /\ \A i \in 1..Len(chunk) : new[Len(new)].bytes[i + 1] = chunk[i]

(* C2: a chunk posted by the microphone worklet is sent as the byte 0x01 *)
(* followed by the chunk's bytes unchanged, a chunk of the system-audio *)
(* worklet as 0x02 followed by its bytes; nothing is sent when the *)
(* websocket is null or not open. *)
AudioFrameLayout ==
  [][ \A chunk \in Chunks :
        /\ MicWorkletMessage(chunk) =>
             IF websocket # 0 /\ readyState[websocket] = "OPEN"
               THEN SentOneFrame(1, chunk) ELSE SentNothing
        /\ SpeakerWorkletMessage(chunk) =>
             IF websocket # 0 /\ readyState[websocket] = "OPEN"
               THEN SentOneFrame(2, chunk) ELSE SentNothing ]_vars

(* C2 witness: one connection carries a frame of each worklet. *)
BothSourcesFramed ==
  \E s \in Sockets : \E i, j \in 1..Len(sent[s]) :
    /\ sent[s][i].type = "audio" /\ sent[s][i].bytes = <<1, 7, 9>>
    /\ sent[s][j].type = "audio" /\ sent[s][j].bytes = <<2, 7, 9>>

(* C3: no connection ever carries more than one generate_summary, and a *)
(* Stop click while the summary is awaited sends nothing. *)
SummaryRequestedOnce ==
  [][ /\ \A s \in Sockets : CountType(sent'[s], "generate_summary") <= 1
      /\ (waitingForSummary /\ StopClick) => SentNothing ]_vars

(* C3 witness: the summary has been requested on the open connection, it *)
(* is awaited and the Stop button can still be clicked. *)
AwaitingWithStopVisible ==
  /\ waitingForSummary /\ ~stopBtnHidden
  /\ websocket # 0 /\ readyState[websocket] = "OPEN"
  /\ CountType(sent[websocket], "generate_summary") = 1

(* C4: once the summary is awaited, waitingForSummary eventually becomes *)
(* false and, unless the modal has been closed by the user, the modal *)
(* shows a terminal outcome with its footer visible. *)
SummaryWaitEnds ==
  waitingForSummary ~>
    (/\ ~waitingForSummary
     /\ \/ modalHidden
        \/ ~modalFooterHidden /\ modalBody \in Terminal)

(* C4 as stated: the terminal outcome is shown in every case. *)
SummaryWaitEndsWithOutcome ==
  waitingForSummary ~>
    (~waitingForSummary /\ ~modalFooterHidden /\ modalBody \in Terminal)

(* C4 witness: the wait was ended by the 30 s timeout, whose error is *)
(* shown with the footer, on a connection that is still open. *)
TimeoutOutcomeShown ==
  /\ ~waitingForSummary /\ ~modalHidden /\ ~modalFooterHidden
  /\ modalBody = "timeout"
  /\ websocket # 0 /\ readyState[websocket] = "OPEN"
  /\ HasType(sent[websocket], "generate_summary")

(* C5: a terminal outcome shown in the modal stays until the next *)
(* generate_summary request puts the modal back to loading: no later *)
(* event replaces it with another outcome. *)
OneOutcomePerRequest ==
  [][ (modalBody \in Terminal) =>
        (modalBody' \in {modalBody, "loading"}) ]_vars

(* C6: when a websocket closes while the summary is awaited, the modal *)
(* shows the connection-lost error with its footer visible, *)
(* waitingForSummary becomes false and audio capture is stopped. *)
CloseWhileWaitingReported ==
  [][ \A s \in Sockets :
        (/\ waitingForSummary
         /\ readyState[s] # "CLOSED" /\ readyState'[s] = "CLOSED")
        => /\ modalBody' = "conn_lost"
           /\ ~modalHidden' /\ ~modalFooterHidden'
           /\ ~waitingForSummary'
           /\ CaptureStopped' ]_vars

(* C6 witness: the session's connection was lost during the wait. *)
ConnectionLostShown ==
  /\ modalBody = "conn_lost" /\ ~modalHidden /\ ~modalFooterHidden
  /\ ~waitingForSummary /\ CaptureStopped
  /\ websocket # 0 /\ readyState[websocket] = "CLOSED"

(* C7: isListening and waitingForSummary are never both true, and a *)
(* connection on which generate_summary has been sent is never the *)
(* connection of a listening session again. *)
LifecycleMovesForward ==
  /\ ~(isListening /\ waitingForSummary)
  /\ (isListening /\ websocket # 0)
       => ~HasType(sent[websocket], "generate_summary")
  /\ waitingForSummary
       => /\ websocket # 0
          /\ readyState[websocket] = "OPEN"
               => HasType(sent[websocket], "generate_summary")

(* C7 witness: a second session is listening on its own connection after *)
(* the first one went through the summary. *)
SecondSessionActive ==
  /\ isListening /\ ~waitingForSummary
  /\ websocket = 2 /\ readyState[2] = "OPEN"
  /\ modalBody \in Terminal

InterimLinesOf(lines, speaker) ==
  { i \in 1..Len(lines) :
      lines[i].kind = "interim" /\ lines[i].label = speaker }

(* C8: the transcript never holds more than one interim line of a *)
(* speaker, and in every reachable state a partial event for a speaker *)
(* that has an interim line changes the text of that line and nothing *)
(* else in the transcript. *)
OneInterimPerSpeaker ==
  \A sp \in Speakers :
    /\ Cardinality(InterimLinesOf(transcriptLines, sp)) <= 1
    /\ \A text \in Texts :
         InterimLinesOf(transcriptLines, sp) # {} =>
           \E i \in InterimLinesOf(transcriptLines, sp) :
             handleTranscript(Cur, text, FALSE, sp).transcriptLines =
               [transcriptLines EXCEPT ![i].text = text]

(* C8 witness: after a final line, both speakers have an interim line *)
(* with a text, the Advisor's before the Client's. *)
InterimsOfBothSpeakers ==
  /\ Len(transcriptLines) = 3
  /\ transcriptLines[1].kind = "final"
  /\ transcriptLines[2].kind = "interim"
  /\ transcriptLines[2].label = "Advisor"
  /\ transcriptLines[3].kind = "interim"
  /\ transcriptLines[3].label = "Client"
  /\ transcriptLines[2].text = "b" /\ transcriptLines[3].text = "a"
  /\ interimElements["Advisor"] = transcriptLines[2].id
  /\ interimElements["Client"] = transcriptLines[3].id

(* C9: a final event for a speaker leaves the other lines as they were, *)
(* in order, except that the speaker's interim line is removed, and *)
(* appends one final line with the event's speaker and text; only that *)
(* speaker's interim slot is cleared. *)
FinalClearsOwnInterimOnly ==
  [][ \A s \in Sockets, text \in Texts, sp \in Speakers :
        ServerTranscript(s, text, TRUE, sp) =>
          LET kept == SelectSeq(transcriptLines,
                        LAMBDA l : ~(l.kind = "interim" /\ l.label = sp))
              n    == Len(transcriptLines')
          IN  /\ n = Len(kept) + 1
              /\ SubSeq(transcriptLines', 1, n - 1) = kept
              /\ transcriptLines'[n].kind = "final"
              /\ transcriptLines'[n].label = sp
              /\ transcriptLines'[n].text = text
              /\ interimElements'[sp] = 0
              /\ \A other \in Speakers \ {sp} :
                   interimElements'[other] = interimElements[other] ]_vars

(* C9 witness: the Advisor's final replaced the Advisor's interim line *)
(* while the Client's interim line and an earlier final stayed. *)
FinalBesideOtherInterim ==
  /\ Len(transcriptLines) = 3
  /\ transcriptLines[1].kind = "final"
  /\ transcriptLines[2].kind = "interim"
  /\ transcriptLines[2].label = "Client"
  /\ transcriptLines[3].kind = "final"
  /\ transcriptLines[3].label = "Advisor"
  /\ transcriptLines[3].id = 5
  /\ interimElements["Advisor"] = 0 /\ interimElements["Client"] # 0

FinalLinesOf(lines) ==
  LET f == SelectSeq(lines, LAMBDA l : l.kind = "final")
  IN  [i \in 1..Len(f) |-> [speaker |-> f[i].label, text |-> f[i].text]]

(* C10: the final lines of the transcript are, in order, the final events *)
(* received since the last clearAll, each with its speaker and text. *)
FinalsInArrivalOrder == FinalLinesOf(transcriptLines) = finalsLog

(* C10 witness: three finals of both speakers with different texts, an *)
(* interim line between them. *)
FinalsAroundInterim ==
  /\ Len(finalsLog) = 3
  /\ finalsLog[1].speaker # finalsLog[2].speaker
  /\ finalsLog[1].text # finalsLog[3].text
  /\ Len(transcriptLines) = 4
  /\ transcriptLines[2].kind = "interim"

ShownAs(items, text) ==
  { items[i].status : i \in { j \in 1..Len(items) : items[j].text = text } }

(* C11: a point shown as discussed is not shown as pending or in_progress *)
(* after a later tracker update or suggestions message. *)
DiscussedStaysDiscussed ==
  [][ \A t \in {"p1", "p2"} :
        ("discussed" \in ShownAs(trackerItems, t))
          => (ShownAs(trackerItems', t) \subseteq {"discussed"}) ]_vars

(* C12: each category set of accumulatedProfile is the union of the items *)
(* received under that key since the last clearAll. *)
ProfileIsUnionOfUpdates ==
  \A k \in ProfileKeys : accumulatedProfile[k] = receivedProfile[k]

(* C13: when a listening session starts, the accumulated profile and the *)
(* known action items hold nothing of an earlier session. *)
CachesStartEmpty ==
  [][ (~isListening /\ isListening')
        => /\ \A k \in ProfileKeys : accumulatedProfile'[k] = {}
           /\ knownTodoItems' = {} ]_vars

(* C14: the suggestion gate fires only when at least 6 s have passed and *)
(* at least 60 characters have been committed since its previous fire *)
(* (since the start, for the characters of the first fire). *)
GateCooldownAndThreshold ==
  \A i \in 1..Len(fireLog) :
    IF i = 1
      THEN fireLog[i].chars >= 60
      ELSE /\ fireLog[i].at - fireLog[i - 1].at >= 6
           /\ fireLog[i].chars - fireLog[i - 1].chars >= 60

(* C14 witness: a fire at t = 0, 80 characters committed at t = 3 without *)
(* a fire, and the next fire at t = 7. *)
FireAtZeroThenAtSeven ==
  /\ Len(fireLog) = 2
  /\ fireLog[1].at = 0 /\ fireLog[1].chars = 60
  /\ fireLog[2].at = 7 /\ fireLog[2].chars = 160
  /\ now = 7

(* C15: the client never holds more than one active (started, not done) *)
(* suggestion. *)
OneActiveSuggestion ==
  Cardinality({ id \in SuggestionIds : activeSuggestions[id] # 0 }) <= 1

(* C16: in every reachable state, a chunk for an active id appends its *)
(* text to that id's card and changes nothing else; a chunk or a done for *)
(* an id that is not active changes nothing; a done for an active id *)
(* makes it inactive, removes the card when had_suggestion is false and *)
(* otherwise leaves the card in place with the text it received. *)
SuggestionStreamApplied ==
  \A id \in SuggestionIds :
    LET c == activeSuggestions[id]
    IN  /\ c <= Len(cards)
        /\ \A text \in Texts :
             LET R == handleSuggestionChunk(Cur, id, text)
             IN  IF c = 0 THEN R = Cur
                 ELSE R = [Cur EXCEPT !.cards[c].text = Append(@, text)]
        /\ \A had \in BOOLEAN :
             LET R == handleSuggestionDone(Cur, id, had)
             IN  IF c = 0 THEN R = Cur
                 ELSE /\ R.activeSuggestions =
                           [activeSuggestions EXCEPT ![id] = 0]
                      /\ Len(R.cards) = Len(cards)
                      /\ R.cards[c].text = cards[c].text
                      /\ \A d \in 1..Len(cards) \ {c} : R.cards[d] = cards[d]
                      /\ R.suggestionsContainer =
                           IF had THEN suggestionsContainer
                           ELSE SelectSeq(suggestionsContainer,
                                          LAMBDA x : x # c)
                      /\ R.transcriptLines = transcriptLines

(* C16 witness: one suggestion received two chunks and was done with a *)
(* result, another one was done without a result and its card removed. *)
StreamedAndDropped ==
  /\ Len(cards) = 2
  /\ cards[1].text = <<"a", "b">> /\ cards[1].rendered /\ ~cards[1].spinner
  /\ cards[2].text = <<>> /\ ~cards[2].spinner /\ ~cards[2].rendered
  /\ suggestionsContainer = <<1>>
  /\ \A id \in SuggestionIds : activeSuggestions[id] = 0

(* C17: when getDisplayMedia fails or yields no audio track, a live start *)
(* goes on with sources = <<"mic">> and no speaker stream, and the *)
(* worklet step that follows creates no speaker worklet and connects with *)
(* those sources; a simulation start is aborted with no capture running, *)
(* isListening false, the Start button enabled and no connection made. *)
SystemAudioFallback ==
  [][ /\ \A outcome \in {"noaudio", "fail"} :
           DisplayResolved(outcome) =>
             IF ~isSimulation
               THEN /\ pc' = "worklets"
                    /\ sources' = <<"mic">>
                    /\ micStream' /\ ~speakerStream' /\ ~hasSpeakerAudio'
               ELSE /\ pc' = "idle"
                    /\ CaptureStopped'
                    /\ ~isListening'
                    /\ ~startBtnDisabled' /\ ~startBtnHidden'
                    /\ nsock' = nsock /\ websocket' = websocket
      /\ (pc = "worklets" /\ pc' = "connecting" /\ sources = <<"mic">>)
           => /\ ~speakerWorklet' /\ micWorklet'
              /\ connArgs'.sources = <<"mic">> /\ connArgs'.mode = "live"
    ]_vars

(* C17 witness: a live session listens with the microphone only and its *)
(* config message named that source alone. *)
MicOnlyAfterAbortedSimulation ==
  /\ isListening /\ ~isSimulation
  /\ micWorklet /\ ~speakerWorklet /\ ~speakerStream
  /\ websocket = 1 /\ readyState[1] = "OPEN"
  /\ Len(sent[1]) >= 1 /\ sent[1][1].sources = <<"mic">>
  /\ sent[1][1].mode = "live"

RECURSIVE LastCoaching(_)
LastCoaching(log) ==
  IF log = <<>> THEN FALSE
  ELSE IF log[Len(log)].type = "coaching_mode" THEN log[Len(log)].enabled
  ELSE LastCoaching(SubSeq(log, 1, Len(log) - 1))

(* C18: on every open connection the enabled value of the last *)
(* coaching_mode message sent (false if none was sent) is the checked *)
(* state of the coaching toggle. *)
CoachingMirrorsToggle ==
  \A s \in Sockets :
    readyState[s] = "OPEN" => LastCoaching(sent[s]) = coachingToggle

(* C18 witness: the session started with coaching on and the toggle was *)
(* switched off during the session. *)
CoachingSwitchedOff ==
  /\ isListening /\ ~coachingToggle
  /\ websocket # 0 /\ readyState[websocket] = "OPEN"
  /\ Len(sent[websocket]) = 3
  /\ sent[websocket][2].type = "coaching_mode" /\ sent[websocket][2].enabled
  /\ sent[websocket][3].type = "coaching_mode" /\ ~sent[websocket][3].enabled

SeedingTypes == {"client_context", "set_discussion_points"}

(* The one message the step sends on the global websocket, or none. *)
SentOnly(msg) ==
  /\ websocket # 0
  /\ sent' = [sent EXCEPT ![websocket] = Append(@, msg)]

SeedingOf(id, points) ==
  IF id # ""
    THEN [BaseMsg EXCEPT !.type = "client_context", !.client_id = id,
                         !.discussion_points = points]
    ELSE [BaseMsg EXCEPT !.type = "set_discussion_points",
                         !.discussion_points = points]

(* C19: the callback armed when the connection opened sends, on an open *)
(* websocket, the current points as client_context when a client id is *)
(* known, as set_discussion_points when there is none but there are *)
(* points, and nothing when there is neither; every activation of the *)
(* tracker on an open websocket sends its points the same way; no *)
(* seeding message without a client id and without points exists. *)
TrackerSeeded ==
  [][ LET open == websocket # 0 /\ readyState[websocket] = "OPEN"
          activated(points) ==
            IF open THEN SentOnly(SeedingOf(clientContextId, points))
                    ELSE SentNothing
      IN  /\ ClientContextTimerFire =>
               IF open /\ (clientContextId # "" \/ discussionPoints # <<>>)
                 THEN SentOnly(SeedingOf(clientContextId, discussionPoints))
                 ELSE SentNothing
          /\ \A points \in PointLists :
               /\ TrackerConfirmClick(points) => activated(points)
               /\ AutoSuggestSettled(points) => activated(points)
               /\ \A s \in Sockets :
                    ServerDiscussionSuggestions(s, points) => activated(points)
          /\ \A s \in Sockets : \A i \in 1..Len(sent'[s]) :
               sent'[s][i].type \in SeedingTypes =>
                 (sent'[s][i].client_id # ""
                    \/ sent'[s][i].discussion_points # <<>>) ]_vars

(* C19 witness: a connection of a page with a client id was seeded by the *)
(* callback and again when the tracker was activated with other points. *)
SeededTwice ==
  /\ websocket # 0 /\ readyState[websocket] = "OPEN"
  /\ Len(sent[websocket]) = 3
  /\ sent[websocket][2] = SeedingOf("c1", <<"p1">>)
  /\ sent[websocket][3] = SeedingOf("c1", <<"p2", "p1">>)

(* C20: the wait for a summary is only ever ended by the timer that the *)
(* stopListening of the same session armed; a timer left over from an *)
(* earlier session, whose wait ended by connection loss or by closing the *)
(* modal, never ends the wait of a later session. *)
StaleTimerNeverEndsWait ==
  [][ \A t \in TimerIds :
        (waitingForSummary /\ t \in timers /\ t # summaryTimeout)
          => (SummaryTimerFire(t) => waitingForSummary') ]_vars

(* C21: accumulatedTodoItems holds no text twice and its texts are exactly *)
(* the members of knownTodoItems. *)
TodoItemsDeduplicated ==
  /\ \A i \in 1..Len(accumulatedTodoItems) :
       \A j \in 1..Len(accumulatedTodoItems) :
         accumulatedTodoItems[i] = accumulatedTodoItems[j] => i = j
  /\ Range(accumulatedTodoItems) = knownTodoItems

RECURSIVE Flatten(_)
Flatten(chunks) ==
  IF chunks = <<>> THEN <<>> ELSE Head(chunks) \o Flatten(Tail(chunks))

(* C22: every posted value lies in [-32768, 32767], never has the sign *)
(* opposite to its input sample, and the posted values are monotonically *)
(* non-decreasing in the input samples after clamping. *)
PcmKeepsSignAndOrder ==
  LET out == Flatten(worklet.posted)
      in  == worklet.input
  IN  \A i \in 1..Len(out) :
        /\ out[i] \in (0 - 2^15)..(2^15 - 1)
        /\ in[i] < 0 => out[i] <= 0
        /\ in[i] > 0 => out[i] >= 0
        /\ \A j \in 1..Len(out) :
             Clamp(in[i]) <= Clamp(in[j]) => out[i] <= out[j]

StoppedMeansNotListening ==
  (statusDot = "idle" /\ ~startBtnHidden /\ ~startBtnDisabled)
    => ~isListening

(* C25: the close event of a websocket other than the current session's *)
(* leaves the current session as it is: its websocket, isListening, *)
(* waitingForSummary and its audio capture do not change. *)
StaleCloseIsIgnored ==
  [][ \A s \in Sockets, abnormal \in BOOLEAN :
        (websocket # 0 /\ s # websocket /\ readyState[s] # "CLOSED")
          => (SocketClosed(s, abnormal)
                => /\ websocket' = websocket
                   /\ readyState'[websocket] = readyState[websocket]
                   /\ isListening' = isListening
                   /\ waitingForSummary' = waitingForSummary
                   /\ audioContext' = audioContext
                   /\ micStream' = micStream) ]_vars

SourceOfTag(tag) == IF tag = SOURCE_MIC THEN "mic" ELSE "speaker"

(* C26: on every connection, each audio frame follows a config message *)
(* that is the connection's first message, and the frame's tag is the *)
(* tag of a source listed in that message. *)
FramesOfListedSources ==
  \A s \in Sockets : \A i \in 1..Len(sent[s]) :
    sent[s][i].type = "audio" =>
      /\ sent[s][1].type = "config"
      /\ sent[s][i].bytes[1] \in {SOURCE_MIC, SOURCE_SPEAKER}
      /\ SourceOfTag(sent[s][i].bytes[1]) \in Range(sent[s][1].sources)

(* C26 witness: the second session runs in simulation mode, lists only *)
(* the system audio and carries a frame of it. *)
SimulationSessionFramed ==
  /\ websocket = 2 /\ readyState[2] = "OPEN"
  /\ Len(sent[2]) >= 2
  /\ sent[2][1].type = "config" /\ sent[2][1].mode = "simulation"
  /\ sent[2][1].sources = <<"speaker">>
  /\ sent[2][2].type = "audio" /\ sent[2][2].bytes[1] = SOURCE_SPEAKER

(* C27: the response of an auto-suggest fetch that arrives when the *)
(* tracker is no longer waiting in "auto" mode changes neither the *)
(* tracker's mode nor the discussion points. *)
LateSuggestionsIgnored ==
  [][ (autoFetches' < autoFetches /\ trackerSetupMode # "auto")
        => /\ trackerSetupMode' = trackerSetupMode
           /\ discussionPoints' = discussionPoints
           /\ discussionTrackerMode' = discussionTrackerMode ]_vars

(* C28: once a non-empty update has been handled and no removal timer is *)
(* pending, the cloud holds exactly one word for each lower-cased topic *)
(* of the last update and no other word. *)
CloudShowsLastTopics ==
  (wordcloud.last # {} /\ wordcloud.timers = {})
    => /\ \A k \in wordcloud.last :
            Cardinality({ i \in 1..Len(wordcloud.children) :
                            wordcloud.children[i].topic = k }) = 1
       /\ \A i \in 1..Len(wordcloud.children) :
            wordcloud.children[i].topic \in wordcloud.last

(* C29: at most one search timer is pending; results are rendered only *)
(* while the search box is not empty, and never the results of a search *)
(* sent before the one whose results are displayed. *)
SearchShowsLatestQuery ==
  [][ /\ Cardinality(precall.timers') <= 1
      /\ (precall.shown' # precall.shown /\ precall.shown' # NoShown)
           => /\ Trim(precall.value) # ""
              /\ precall.shown'.id > precall.shown.id ]_vars

(* The trimmed, non-empty contents of the two discussion inputs, in input *)
(* order. *)
EnteredPoints ==
  LET a == Trim(precall.inputs[1])
      b == Trim(precall.inputs[2])
  IN  (IF a # "" THEN <<a>> ELSE <<>>) \o (IF b # "" THEN <<b>> ELSE <<>>)

(* C30: on the call page reached through Start Call, the stored items are *)
(* the selected client's id and name and the entered points; *)
(* loadClientContext has loaded that id and that list; the tracker is *)
(* active exactly when the list is not empty; and every seeding message *)
(* is a client_context that carries that id and that list. *)
PreCallSeedingRoundTrips ==
  precall.page = "call" =>
    /\ precall.selectedClient \in Clients
    /\ precall.storage.wingman_client_id = precall.selectedClient.id
    /\ precall.storage.wingman_client_name = precall.selectedClient.name
    /\ precall.storage.wingman_discussion_points.present
    /\ JsonParse(precall.storage.wingman_discussion_points) = EnteredPoints
    /\ clientContextId = precall.selectedClient.id
    /\ discussionPoints = EnteredPoints
    /\ (trackerSetupMode = "active") <=> (EnteredPoints # <<>>)
    /\ discussionTrackerMode <=> (EnteredPoints # <<>>)
    /\ \A s \in Sockets : \A i \in 1..Len(sent[s]) :
         sent[s][i].type \in SeedingTypes =>
           sent[s][i] = SeedingOf(precall.selectedClient.id, EnteredPoints)

(* C30 witness: the points "p1" and " p2 " were entered for client c1 and *)
(* the connection of the call carries them, trimmed, in client_context. *)
StoredPointsSeeded ==
  /\ precall.page = "call"
  /\ precall.inputs = <<"p1", " p2 ">>
  /\ websocket # 0 /\ readyState[websocket] = "OPEN"
  /\ Len(sent[websocket]) = 2
  /\ sent[websocket][2] = SeedingOf("c1", <<"p1", "p2">>)
  /\ trackerSetupMode = "active"

====
